---- MODULE Spec2Model ----
(***************************************************************************)
(* trust_vault: a Vault secrets engine that creates, imports, reads,       *)
(* signs with and deletes named wallets.  The model follows the three      *)
(* layers of the source:                                                   *)
(*   backend/path_wallet.go   request handlers (validation, error mapping) *)
(*   service (WalletService)  wallet lifecycle                             *)
(*   storage (StorageService) envelope encryption over logical.Storage     *)
(* Go strings and byte slices are sequences of naturals (character codes   *)
(* and bytes).  Requests run concurrently, one per process; a handler is   *)
(* cut into steps at its calls of the persistent backend.                  *)
(***************************************************************************)
EXTENDS Integers, Sequences, FiniteSets, TLC

(***************************************************************************)
(* Bounds of the model                                                     *)
(***************************************************************************)
NumProcs == 2
NumNames == 1
NumNonces == 1
NumKeys == 2
NumGen == 1
MaxTime == 1
MaxTamper == 1

Procs == 1..NumProcs

(***************************************************************************)
(* Helpers on sequences                                                    *)
(***************************************************************************)
Range(s) == {s[i] : i \in 1..Len(s)}

Prefix(s, n) == SubSeq(s, 1, n)

Suffix(s, n) == SubSeq(s, n + 1, Len(s))

AllZero(s) == \A i \in 1..Len(s) : s[i] = 0

RECURSIVE Flatten(_)
Flatten(ss) == IF ss = <<>> THEN <<>> ELSE Head(ss) \o Flatten(Tail(ss))

(***************************************************************************)
(* Errors.  A Go error is the chain of messages that %w wrapping builds,   *)
(* outermost first; errors.Is looks for a sentinel anywhere in the chain.  *)
(***************************************************************************)
NoErr == <<>>

Wrap(msg, err) == <<msg>> \o err

ErrorsIs(err, sentinel) == sentinel \in Range(err)

\* storage package sentinels
StorageErrWalletNotFound == "storage: wallet not found"
StorageErrWalletExists == "storage: wallet already exists"
ErrEncryptionFailed == "encryption failed"
ErrDecryptionFailed == "decryption failed"

\* service package sentinels
ErrWalletNotFound == "service: wallet not found"
ErrWalletExists == "service: wallet already exists"
ErrInvalidCoinType == "service: invalid coin type"
ErrInvalidMnemonic == "service: invalid mnemonic phrase"
ErrInvalidTxData == "service: invalid transaction data"
ErrSigningFailed == "service: transaction signing failed"
ErrInvalidWalletName == "service: invalid wallet name"

\* wallet package (Signing Provider) sentinels
WalletErrInvalidMnemonic == "wallet: invalid mnemonic phrase"
WalletErrInvalidCoinType == "wallet: invalid coin type"
ErrKeyGenerationFailed == "wallet: key generation failed"
WalletErrSigningFailed == "wallet: transaction signing failed"
ErrAddressDerivation == "wallet: address derivation failed"

\* an I/O error of the persistent backend, and a failure of crypto/rand
BackendIOError == "backend: i/o error"
RandReadError == "rand: read failed"

(***************************************************************************)
(* Signing Provider (wallet.TrustWalletCore).  The native library is an    *)
(* external collaborator: its key derivation is a fixed function of the    *)
(* mnemonic, the coin type and the path, and its internal failures are an  *)
(* outcome the caller of these operators chooses.                          *)
(***************************************************************************)
CoinTypeBitcoin == 0
CoinTypeEthereum == 60
CoinTypeSolana == 501

isValidCoinType(coinType) == coinType \in {CoinTypeBitcoin, CoinTypeEthereum, CoinTypeSolana}

\* "m1", "m2", ...: the phrases the native generator can return
MnemonicPhrase(i) == <<109, 48 + i>>

GenMnemonics == {MnemonicPhrase(i) : i \in 1..NumGen}

\* TWMnemonicIsValid
TWMnemonicIsValid(mnemonic) == Len(mnemonic) = 2 /\ mnemonic[1] = 109

\* TWHDWalletGetKeyForCoin / TWHDWalletGetKey, then TWPrivateKeyData
TWPrivateKeyData(mnemonic, coinType, derivationPath) ==
    <<mnemonic[2], 1 + ((coinType + 7 * Len(derivationPath)) % 255)>>

\* TWPrivateKeyGetPublicKeySecp256k1, then TWPublicKeyData
TWPublicKeyData(privateKey) ==
    <<(privateKey[1] * 3) % 256, (privateKey[2] * 5 + 1) % 256>>

\* getAddressForCoinType: TWAnyAddressDescription of the public key
getAddressForCoinType(publicKey, coinType) ==
    <<97, 48 + (coinType % 10)>> \o [i \in 1..Len(publicKey) |-> 65 + (publicKey[i] % 26)]

WalletKeys(mnemonic, coinType) ==
    LET priv == TWPrivateKeyData(mnemonic, coinType, <<>>)
        pub  == TWPublicKeyData(priv)
    IN  [Mnemonic |-> mnemonic, PrivateKey |-> priv, PublicKey |-> pub,
         Address |-> getAddressForCoinType(pub, coinType)]

NoKeys == [Mnemonic |-> <<>>, PrivateKey |-> <<>>, PublicKey |-> <<>>, Address |-> <<>>]

\* GenerateWallet: fresh is the phrase the native generator drew, native
\* whether the native calls succeeded
GenerateWallet(coinType, fresh, native) ==
    IF ~isValidCoinType(coinType)
    THEN [keys |-> NoKeys, err |-> <<WalletErrInvalidCoinType>>]
    ELSE IF ~native
    THEN [keys |-> NoKeys, err |-> <<ErrKeyGenerationFailed>>]
    ELSE [keys |-> WalletKeys(fresh, coinType), err |-> NoErr]

ImportWallet(mnemonic, coinType, native) ==
    IF mnemonic = <<>>
    THEN [keys |-> NoKeys, err |-> <<WalletErrInvalidMnemonic>>]
    ELSE IF ~isValidCoinType(coinType)
    THEN [keys |-> NoKeys, err |-> <<WalletErrInvalidCoinType>>]
    ELSE IF ~TWMnemonicIsValid(mnemonic)
    THEN [keys |-> NoKeys, err |-> <<WalletErrInvalidMnemonic>>]
    ELSE IF ~native
    THEN [keys |-> NoKeys, err |-> <<ErrKeyGenerationFailed>>]
    ELSE [keys |-> WalletKeys(mnemonic, coinType), err |-> NoErr]

DeriveAddress(mnemonic, coinType, derivationPath, native) ==
    IF mnemonic = <<>>
    THEN [address |-> <<>>, err |-> <<WalletErrInvalidMnemonic>>]
    ELSE IF ~isValidCoinType(coinType)
    THEN [address |-> <<>>, err |-> <<WalletErrInvalidCoinType>>]
    ELSE IF ~TWMnemonicIsValid(mnemonic)
    THEN [address |-> <<>>, err |-> <<WalletErrInvalidMnemonic>>]
    ELSE IF ~native
    THEN [address |-> <<>>, err |-> <<ErrAddressDerivation>>]
    ELSE [address |->
             getAddressForCoinType(
                 TWPublicKeyData(TWPrivateKeyData(mnemonic, coinType, derivationPath)),
                 coinType),
          err |-> NoErr]

\* TWPrivateKeySign
TWPrivateKeySign(privateKey, txData) ==
    [i \in 1..Len(privateKey) |-> (privateKey[i] + 31 * txData.len + i) % 256] \o <<txData.len % 256>>

ProviderSignTransaction(privateKey, coinType, txData, native) ==
    IF Len(privateKey) = 0
    THEN [signature |-> <<>>, err |-> <<WalletErrSigningFailed>>]
    ELSE IF txData.len = 0
    THEN [signature |-> <<>>, err |-> <<WalletErrSigningFailed>>]
    ELSE IF ~isValidCoinType(coinType)
    THEN [signature |-> <<>>, err |-> <<WalletErrInvalidCoinType>>]
    ELSE IF ~native
    THEN [signature |-> <<>>, err |-> <<WalletErrSigningFailed>>]
    ELSE [signature |-> TWPrivateKeySign(privateKey, txData), err |-> NoErr]

\* GetPublicKeyHex: hex.EncodeToString
HexDigit(d) == IF d < 10 THEN 48 + d ELSE 87 + d

GetPublicKeyHex(publicKey) ==
    Flatten([i \in 1..Len(publicKey) |->
                <<HexDigit(publicKey[i] \div 16), HexDigit(publicKey[i] % 16)>>])

(***************************************************************************)
(* Envelope encryption (StorageService.encrypt / decrypt).  AES-256-GCM is *)
(* a library primitive: the keystream is a fixed function of key, nonce    *)
(* and position, and the authentication tag is one symbol above the byte   *)
(* range that codes (key, nonce, ciphertext) without collision on the      *)
(* values the model reaches, as GCM's tag does up to forgery.  Base64 is   *)
(* symbol-wise: symbol s is the character s + 1 and 0 is a character       *)
(* outside the alphabet.                                                   *)
(***************************************************************************)
NonceSize == 12

RECURSIVE WeightedSum(_)
WeightedSum(s) == IF s = <<>> THEN 0 ELSE Len(s) * s[Len(s)] + WeightedSum(Prefix(s, Len(s) - 1))

RECURSIVE BytesCode(_)
BytesCode(s) == IF s = <<>> THEN 0 ELSE s[Len(s)] + 256 * BytesCode(Prefix(s, Len(s) - 1))

KeyStream(key, nonce, i) == (key * 7 + WeightedSum(nonce) * 3 + i * 5) % 256

\* variant: a tag that does not depend on the key
GCMTagKeyless(key, nonce, ct) ==
    256 + 4 * (WeightedSum(nonce) % 512) + 2048 * (Len(ct) % 4) + 8192 * BytesCode(ct)

GCMTag(key, nonce, ct) ==
    256 + (key % 4) + 4 * (WeightedSum(nonce) % 512) + 2048 * (Len(ct) % 4) + 8192 * BytesCode(ct)

\* gcm.Seal(nonce, nonce, plaintext, nil): nonce || ciphertext || tag
GCMSeal(key, nonce, plaintext) ==
    LET ct == [i \in 1..Len(plaintext) |-> (plaintext[i] + KeyStream(key, nonce, i)) % 256]
    IN  nonce \o ct \o <<GCMTag(key, nonce, ct)>>

\* variant: Open that does not verify the tag
GCMOpenUnverified(key, nonce, sealed) ==
    IF Len(sealed) = 0
    THEN [plaintext |-> <<>>, err |-> <<"cipher: message authentication failed">>]
    ELSE LET ct == Prefix(sealed, Len(sealed) - 1)
         IN  [plaintext |-> [i \in 1..Len(ct) |-> (ct[i] + 256 - KeyStream(key, nonce, i)) % 256],
              err |-> NoErr]

\* variant: Open that takes the nonce of the first draw for the nonce given
GCMOpenFixedNonce(key, nonce, sealed) ==
    IF Len(sealed) = 0
    THEN [plaintext |-> <<>>, err |-> <<"cipher: message authentication failed">>]
    ELSE LET ct  == Prefix(sealed, Len(sealed) - 1)
             tag == sealed[Len(sealed)]
             n0  == [i \in 1..Len(nonce) |-> 0]
         IN  IF tag # GCMTag(key, nonce, ct)
             THEN [plaintext |-> <<>>, err |-> <<"cipher: message authentication failed">>]
             ELSE [plaintext |-> [i \in 1..Len(ct) |-> (ct[i] + 256 - KeyStream(key, n0, i)) % 256],
                   err |-> NoErr]

\* gcm.Open(nil, nonce, ciphertextBytes, nil)
GCMOpen(key, nonce, sealed) ==
    IF Len(sealed) = 0
    THEN [plaintext |-> <<>>, err |-> <<"cipher: message authentication failed">>]
    ELSE LET ct  == Prefix(sealed, Len(sealed) - 1)
             tag == sealed[Len(sealed)]
         IN  IF tag # GCMTag(key, nonce, ct)
             THEN [plaintext |-> <<>>, err |-> <<"cipher: message authentication failed">>]
             ELSE [plaintext |-> [i \in 1..Len(ct) |-> (ct[i] + 256 - KeyStream(key, nonce, i)) % 256],
                   err |-> NoErr]

InvalidChar == 0

StdEncodeToString(data) == [i \in 1..Len(data) |-> data[i] + 1]

StdDecodeString(str) ==
    IF \E i \in 1..Len(str) : str[i] = InvalidChar
    THEN [data |-> <<>>, err |-> <<"illegal base64 data">>]
    ELSE [data |-> [i \in 1..Len(str) |-> str[i] - 1], err |-> NoErr]

\* the nonce io.ReadFull(rand.Reader, nonce) fills in: draw r repeated
RandNonce(r) == [i \in 1..NonceSize |-> r]

\* encrypt: r is the draw of the random source, randOk whether it could be read
encrypt(encryptionKey, plaintext, r, randOk) ==
    IF ~randOk
    THEN [out |-> <<>>, err |-> <<RandReadError>>]
    ELSE [out |-> StdEncodeToString(GCMSeal(encryptionKey, RandNonce(r), plaintext)), err |-> NoErr]

decrypt(encryptionKey, ciphertext) ==
    LET dec == StdDecodeString(ciphertext)
    IN  IF dec.err # NoErr
        THEN [out |-> <<>>, err |-> dec.err]
        ELSE IF Len(dec.data) < NonceSize
        THEN [out |-> <<>>, err |-> <<"ciphertext too short">>]
        ELSE LET opened == GCMOpen(encryptionKey, Prefix(dec.data, NonceSize),
                                   Suffix(dec.data, NonceSize))
             IN  [out |-> opened.plaintext, err |-> opened.err]

(***************************************************************************)
(* Persistent backend (logical.Storage): a map from keys to entries.  Get  *)
(* of an absent key answers nil without error, Put overwrites, Delete of   *)
(* an absent key is no error; any call may fail with an I/O error (io =    *)
(* FALSE).  An optional value is a sequence of length 0 or 1.              *)
(***************************************************************************)
WalletsPrefix == <<119, 97, 108, 108, 101, 116, 115, 47>>

WalletKey(name) == WalletsPrefix \o name

StorageGet(st, key, io) ==
    IF ~io THEN [entry |-> <<>>, err |-> <<BackendIOError>>]
    ELSE IF key \in DOMAIN st THEN [entry |-> <<st[key]>>, err |-> NoErr]
    ELSE [entry |-> <<>>, err |-> NoErr]

\* variant: a Put that leaves an entry that is there
StoragePutIfAbsent(st, key, value) ==
    IF key \in DOMAIN st THEN st
    ELSE [k \in DOMAIN st \cup {key} |-> IF k = key THEN value ELSE st[k]]

StoragePut(st, key, value) == [k \in DOMAIN st \cup {key} |-> IF k = key THEN value ELSE st[k]]

StorageDelete(st, key) == [k \in DOMAIN st \ {key} |-> st[k]]

\* lexicographic order of keys, the order List returns them in
RECURSIVE LexLess(_, _)
LexLess(a, b) ==
    IF a = <<>> THEN b # <<>>
    ELSE IF b = <<>> THEN FALSE
    ELSE IF Head(a) # Head(b) THEN Head(a) < Head(b)
    ELSE LexLess(Tail(a), Tail(b))

RECURSIVE SortedSeq(_)
SortedSeq(S) ==
    IF S = {} THEN <<>>
    ELSE LET m == CHOOSE x \in S : \A y \in S \ {x} : LexLess(x, y)
         IN  <<m>> \o SortedSeq(S \ {m})

HasPrefix(s, prefix) == Len(s) >= Len(prefix) /\ Prefix(s, Len(prefix)) = prefix

StorageList(st, prefix) ==
    SortedSeq({Suffix(k, Len(prefix)) : k \in {x \in DOMAIN st : HasPrefix(x, prefix)}})

(***************************************************************************)
(* StorageService                                                          *)
(***************************************************************************)
\* a *storage.Wallet that holds nothing (the zero value)
NoWallet == [Name |-> <<>>, CoinType |-> 0, Mnemonic |-> <<>>, PrivateKey |-> <<>>,
             PublicKey |-> <<>>, Address |-> <<>>, CreatedAt |-> 0]

\* encryptWallet: r1, r2 are the nonce draws of the two encrypt calls
encryptWallet(encryptionKey, wallet, r1, r2, randOk1, randOk2) ==
    LET m == encrypt(encryptionKey, wallet.Mnemonic, r1, randOk1)
        k == encrypt(encryptionKey, wallet.PrivateKey, r2, randOk2)
    IN  IF m.err # NoErr
        THEN [encrypted |-> <<>>, err |-> <<ErrEncryptionFailed, "failed to encrypt mnemonic">>]
        ELSE IF k.err # NoErr
        THEN [encrypted |-> <<>>, err |-> <<ErrEncryptionFailed, "failed to encrypt private key">>]
        ELSE [encrypted |->
                 <<[Name |-> wallet.Name, CoinType |-> wallet.CoinType,
                    MnemonicEncrypted |-> m.out, PrivateKeyEncrypted |-> k.out,
                    PublicKey |-> wallet.PublicKey, Address |-> wallet.Address,
                    CreatedAt |-> wallet.CreatedAt]>>,
              err |-> NoErr]

decryptWallet(encryptionKey, encrypted) ==
    LET m == decrypt(encryptionKey, encrypted.MnemonicEncrypted)
        k == decrypt(encryptionKey, encrypted.PrivateKeyEncrypted)
    IN  IF m.err # NoErr
        THEN [wallet |-> <<>>, err |-> <<ErrDecryptionFailed, "failed to decrypt mnemonic">>]
        ELSE IF k.err # NoErr
        THEN [wallet |-> <<>>, err |-> <<ErrDecryptionFailed, "failed to decrypt private key">>]
        ELSE [wallet |->
                 <<[Name |-> encrypted.Name, CoinType |-> encrypted.CoinType,
                    Mnemonic |-> m.out, PrivateKey |-> k.out,
                    PublicKey |-> encrypted.PublicKey, Address |-> encrypted.Address,
                    CreatedAt |-> encrypted.CreatedAt]>>,
              err |-> NoErr]

\* variant: StoreWallet without the branch for an entry that is there
StoreWalletCheckBlind(st, wallet, io) ==
    LET got == StorageGet(st, WalletKey(wallet.Name), io)
    IN  IF got.err # NoErr
        THEN [proceed |-> FALSE, err |-> Wrap("failed to check wallet existence", got.err)]
        ELSE [proceed |-> TRUE, err |-> NoErr]

\* variant: StoreWallet that looks the name up without the "wallets/" prefix
StoreWalletCheckWrongKey(st, wallet, io) ==
    LET got == StorageGet(st, wallet.Name, io)
    IN  IF got.err # NoErr
        THEN [proceed |-> FALSE, err |-> Wrap("failed to check wallet existence", got.err)]
        ELSE IF got.entry # <<>>
        THEN [proceed |-> FALSE, err |-> <<StorageErrWalletExists>>]
        ELSE [proceed |-> TRUE, err |-> NoErr]

\* StoreWallet up to its existence check: proceed tells that the check passed
StoreWalletCheck(st, wallet, io) ==
    LET got == StorageGet(st, WalletKey(wallet.Name), io)
    IN  IF got.err # NoErr
        THEN [proceed |-> FALSE, err |-> Wrap("failed to check wallet existence", got.err)]
        ELSE IF got.entry # <<>>
        THEN [proceed |-> FALSE, err |-> <<StorageErrWalletExists>>]
        ELSE [proceed |-> TRUE, err |-> NoErr]

\* variant: StoreWallet that writes the entry as soon as the mnemonic is
\* encrypted, before the private key is
StoreWalletPutPartial(st, encryptionKey, wallet, r1, r2, randOk1, randOk2, io) ==
    LET enc == encryptWallet(encryptionKey, wallet, r1, r2, randOk1, randOk2)
        m   == encrypt(encryptionKey, wallet.Mnemonic, r1, randOk1)
    IN  IF enc.err # NoErr
        THEN [st |-> IF m.err # NoErr \/ ~io THEN st
                     ELSE StoragePut(st, WalletKey(wallet.Name),
                                     [Name |-> wallet.Name, CoinType |-> wallet.CoinType,
                                      MnemonicEncrypted |-> m.out, PrivateKeyEncrypted |-> <<>>,
                                      PublicKey |-> wallet.PublicKey, Address |-> wallet.Address,
                                      CreatedAt |-> wallet.CreatedAt]),
              err |-> Wrap("failed to encrypt wallet", enc.err)]
        ELSE IF ~io
        THEN [st |-> st, err |-> <<"failed to store wallet", BackendIOError>>]
        ELSE [st |-> StoragePut(st, WalletKey(wallet.Name), enc.encrypted[1]), err |-> NoErr]

\* StoreWallet from encryptWallet on: st is the backend as the Put finds it
StoreWalletPut(st, encryptionKey, wallet, r1, r2, randOk1, randOk2, io) ==
    LET enc == encryptWallet(encryptionKey, wallet, r1, r2, randOk1, randOk2)
    IN  IF enc.err # NoErr
        THEN [st |-> st, err |-> Wrap("failed to encrypt wallet", enc.err)]
        ELSE IF ~io
        THEN [st |-> st, err |-> <<"failed to store wallet", BackendIOError>>]
        ELSE [st |-> StoragePut(st, WalletKey(wallet.Name), enc.encrypted[1]), err |-> NoErr]

StorageGetWallet(st, encryptionKey, name, io) ==
    IF name = <<>>
    THEN [wallet |-> <<>>, err |-> <<"wallet name cannot be empty">>]
    ELSE LET got == StorageGet(st, WalletKey(name), io)
         IN  IF got.err # NoErr
             THEN [wallet |-> <<>>, err |-> Wrap("failed to retrieve wallet", got.err)]
             ELSE IF got.entry = <<>>
             THEN [wallet |-> <<>>, err |-> <<StorageErrWalletNotFound>>]
             ELSE LET dec == decryptWallet(encryptionKey, got.entry[1])
                  IN  IF dec.err # NoErr
                      THEN [wallet |-> <<>>, err |-> Wrap("failed to decrypt wallet", dec.err)]
                      ELSE [wallet |-> dec.wallet, err |-> NoErr]

\* variant: GetWalletMetadata that leaves the public key out
GetWalletMetadataNoPublicKey(st, name, io) ==
    IF name = <<>>
    THEN [wallet |-> <<>>, err |-> <<"wallet name cannot be empty">>]
    ELSE LET got == StorageGet(st, WalletKey(name), io)
         IN  IF got.err # NoErr
             THEN [wallet |-> <<>>, err |-> Wrap("failed to retrieve wallet", got.err)]
             ELSE IF got.entry = <<>>
             THEN [wallet |-> <<>>, err |-> <<StorageErrWalletNotFound>>]
             ELSE [wallet |->
                      <<[Name |-> got.entry[1].Name, CoinType |-> got.entry[1].CoinType,
                         Mnemonic |-> <<>>, PrivateKey |-> <<>>,
                         PublicKey |-> <<>>,
                         Address |-> got.entry[1].Address,
                         CreatedAt |-> got.entry[1].CreatedAt]>>,
                   err |-> NoErr]

\* variant: GetWalletMetadata that decrypts the envelopes of the entry, as
\* GetWallet does, before it returns the plaintext fields
GetWalletMetadataDecrypts(st, name, io) ==
    IF name = <<>>
    THEN [wallet |-> <<>>, err |-> <<"wallet name cannot be empty">>]
    ELSE LET got == StorageGet(st, WalletKey(name), io)
         IN  IF got.err # NoErr
             THEN [wallet |-> <<>>, err |-> Wrap("failed to retrieve wallet", got.err)]
             ELSE IF got.entry = <<>>
             THEN [wallet |-> <<>>, err |-> <<StorageErrWalletNotFound>>]
             ELSE LET dec == decryptWallet(1, got.entry[1])
                  IN  IF dec.err # NoErr
                      THEN [wallet |-> <<>>, err |-> dec.err]
                      ELSE [wallet |-> <<[dec.wallet[1] EXCEPT !.Mnemonic = <<>>,
                                                                !.PrivateKey = <<>>]>>,
                            err |-> NoErr]

GetWalletMetadata(st, name, io) ==
    IF name = <<>>
    THEN [wallet |-> <<>>, err |-> <<"wallet name cannot be empty">>]
    ELSE LET got == StorageGet(st, WalletKey(name), io)
         IN  IF got.err # NoErr
             THEN [wallet |-> <<>>, err |-> Wrap("failed to retrieve wallet", got.err)]
             ELSE IF got.entry = <<>>
             THEN [wallet |-> <<>>, err |-> <<StorageErrWalletNotFound>>]
             ELSE [wallet |->
                      <<[Name |-> got.entry[1].Name, CoinType |-> got.entry[1].CoinType,
                         Mnemonic |-> <<>>, PrivateKey |-> <<>>,
                         PublicKey |-> got.entry[1].PublicKey,
                         Address |-> got.entry[1].Address,
                         CreatedAt |-> got.entry[1].CreatedAt]>>,
                   err |-> NoErr]

\* variant: DeleteWallet that goes on to the backend Delete for an absent name
DeleteWalletCheckLenient(st, name, io) ==
    IF name = <<>>
    THEN [proceed |-> FALSE, err |-> <<"wallet name cannot be empty">>]
    ELSE LET got == StorageGet(st, WalletKey(name), io)
         IN  IF got.err # NoErr
             THEN [proceed |-> FALSE, err |-> Wrap("failed to check wallet existence", got.err)]
             ELSE [proceed |-> TRUE, err |-> NoErr]

\* DeleteWallet up to its existence check
DeleteWalletCheck(st, name, io) ==
    IF name = <<>>
    THEN [proceed |-> FALSE, err |-> <<"wallet name cannot be empty">>]
    ELSE LET got == StorageGet(st, WalletKey(name), io)
         IN  IF got.err # NoErr
             THEN [proceed |-> FALSE, err |-> Wrap("failed to check wallet existence", got.err)]
             ELSE IF got.entry = <<>>
             THEN [proceed |-> FALSE, err |-> <<StorageErrWalletNotFound>>]
             ELSE [proceed |-> TRUE, err |-> NoErr]

\* variant: DeleteWallet that reports success and leaves the record
DeleteWalletRemoveKeeps(st, name, io) ==
    IF ~io
    THEN [st |-> st, err |-> <<"failed to delete wallet", BackendIOError>>]
    ELSE [st |-> st, err |-> NoErr]

\* variant: DeleteWallet whose record is gone also when the backend Delete
\* has returned an error
DeleteWalletRemoveOnFailure(st, name, io) ==
    IF ~io
    THEN [st |-> StorageDelete(st, WalletKey(name)),
          err |-> <<"failed to delete wallet", BackendIOError>>]
    ELSE [st |-> StorageDelete(st, WalletKey(name)), err |-> NoErr]

\* DeleteWallet from the backend Delete on
DeleteWalletRemove(st, name, io) ==
    IF ~io
    THEN [st |-> st, err |-> <<"failed to delete wallet", BackendIOError>>]
    ELSE [st |-> StorageDelete(st, WalletKey(name)), err |-> NoErr]

\* variant: ListWallets that takes the limit 0 for a page without names
StorageListWalletsLiteralLimit(st, offset, limit, io) ==
    IF ~io
    THEN [keys |-> <<>>, err |-> <<"failed to list wallets", BackendIOError>>,
          panicked |-> FALSE]
    ELSE LET keys  == StorageList(st, WalletsPrefix)
             total == Len(keys)
             end   == IF offset + limit > total THEN total ELSE offset + limit
         IN  IF offset >= total
             THEN [keys |-> <<>>, err |-> NoErr, panicked |-> FALSE]
             ELSE [keys |-> SubSeq(keys, offset + 1, end), err |-> NoErr,
                   panicked |-> FALSE]

\* Go's int, on integers of IntBits bits: the sum of two ints wraps around
IntBits == 6

MaxInt == 2 ^ (IntBits - 1) - 1

WrapInt(x) == ((x + 2 ^ (IntBits - 1)) % (2 ^ IntBits)) - 2 ^ (IntBits - 1)

\* ListWallets.  panicked: the slice expression keys[offset:end] is out of
\* range (offset < 0 or end < offset), the call does not return.
StorageListWallets(st, offset, limit, io) ==
    IF ~io
    THEN [keys |-> <<>>, err |-> <<"failed to list wallets", BackendIOError>>,
          panicked |-> FALSE]
    ELSE LET keys  == StorageList(st, WalletsPrefix)
             total == Len(keys)
             sum   == WrapInt(offset + limit)
             end   == IF limit <= 0 \/ sum > total THEN total ELSE sum
         IN  IF offset >= total
             THEN [keys |-> <<>>, err |-> NoErr, panicked |-> FALSE]
             ELSE IF offset < 0 \/ end < offset
             THEN [keys |-> <<>>, err |-> NoErr, panicked |-> TRUE]
             ELSE [keys |-> SubSeq(keys, offset + 1, end), err |-> NoErr,
                   panicked |-> FALSE]

(***************************************************************************)
(* WalletService                                                           *)
(***************************************************************************)
\* the wallet a call returns to the handler: no Mnemonic, no PrivateKey
Projection(w) == [w EXCEPT !.Mnemonic = <<>>, !.PrivateKey = <<>>]

\* variant: CreateWallet that looks for the record of the name before it
\* calls the provider
CreateWalletBeginCheckFirst(st, name, coinType, mnemonic, fresh, native, now, io) ==
    IF name # <<>> /\ io /\ WalletKey(name) \in DOMAIN st
    THEN [obj |-> NoWallet, err |-> <<ErrWalletExists>>, proceed |-> FALSE, keys |-> FALSE]
    ELSE IF name = <<>>
    THEN [obj |-> NoWallet, err |-> <<ErrInvalidWalletName>>, proceed |-> FALSE, keys |-> FALSE]
    ELSE LET r == IF mnemonic # <<>>
                  THEN ImportWallet(mnemonic, coinType, native)
                  ELSE GenerateWallet(coinType, fresh, native)
         IN  IF r.err # NoErr
             THEN [obj |-> NoWallet,
                   err |-> IF mnemonic # <<>> /\ ErrorsIs(r.err, WalletErrInvalidMnemonic)
                           THEN <<ErrInvalidMnemonic>>
                           ELSE IF ErrorsIs(r.err, WalletErrInvalidCoinType)
                           THEN <<ErrInvalidCoinType>>
                           ELSE IF mnemonic # <<>>
                           THEN Wrap("failed to import wallet", r.err)
                           ELSE Wrap("failed to generate wallet", r.err),
                   proceed |-> FALSE, keys |-> FALSE]
             ELSE LET obj == [Name |-> name, CoinType |-> coinType,
                              Mnemonic |-> r.keys.Mnemonic,
                              PrivateKey |-> r.keys.PrivateKey,
                              PublicKey |-> GetPublicKeyHex(r.keys.PublicKey),
                              Address |-> r.keys.Address, CreatedAt |-> now]
                      chk == StoreWalletCheck(st, obj, io)
                  IN  [obj |-> obj,
                       err |-> IF chk.err = NoErr THEN NoErr
                               ELSE IF ErrorsIs(chk.err, StorageErrWalletExists)
                               THEN <<ErrWalletExists>>
                               ELSE Wrap("failed to store wallet", chk.err),
                       proceed |-> chk.proceed, keys |-> TRUE]

\* CreateWallet up to and including StoreWallet's existence check.  obj is
\* walletObj, whose PrivateKey is the slice the provider returned.
CreateWalletBegin(st, name, coinType, mnemonic, fresh, native, now, io) ==
    IF name = <<>>
    THEN [obj |-> NoWallet, err |-> <<ErrInvalidWalletName>>, proceed |-> FALSE, keys |-> FALSE]
    ELSE LET r == IF mnemonic # <<>>
                  THEN ImportWallet(mnemonic, coinType, native)
                  ELSE GenerateWallet(coinType, fresh, native)
         IN  IF r.err # NoErr
             THEN [obj |-> NoWallet,
                   err |-> IF mnemonic # <<>> /\ ErrorsIs(r.err, WalletErrInvalidMnemonic)
                           THEN <<ErrInvalidMnemonic>>
                           ELSE IF ErrorsIs(r.err, WalletErrInvalidCoinType)
                           THEN <<ErrInvalidCoinType>>
                           ELSE IF mnemonic # <<>>
                           THEN Wrap("failed to import wallet", r.err)
                           ELSE Wrap("failed to generate wallet", r.err),
                   proceed |-> FALSE, keys |-> FALSE]
             ELSE LET obj == [Name |-> name, CoinType |-> coinType,
                              Mnemonic |-> r.keys.Mnemonic,
                              PrivateKey |-> r.keys.PrivateKey,
                              PublicKey |-> GetPublicKeyHex(r.keys.PublicKey),
                              Address |-> r.keys.Address, CreatedAt |-> now]
                      chk == StoreWalletCheck(st, obj, io)
                  IN  [obj |-> obj,
                       err |-> IF chk.err = NoErr THEN NoErr
                               ELSE IF ErrorsIs(chk.err, StorageErrWalletExists)
                               THEN <<ErrWalletExists>>
                               ELSE Wrap("failed to store wallet", chk.err),
                       proceed |-> chk.proceed, keys |-> TRUE]

\* CreateWallet from StoreWallet's encryption on
CreateWalletFinish(st, encryptionKey, obj, r1, r2, randOk1, randOk2, io) ==
    LET put == StoreWalletPut(st, encryptionKey, obj, r1, r2, randOk1, randOk2, io)
    IN  IF put.err # NoErr
        THEN [st |-> put.st, wallet |-> <<>>,
              err |-> IF ErrorsIs(put.err, StorageErrWalletExists)
                      THEN <<ErrWalletExists>>
                      ELSE Wrap("failed to store wallet", put.err)]
        ELSE [st |-> put.st, wallet |-> <<Projection(obj)>>, err |-> NoErr]

ServiceGetWallet(st, name, io) ==
    IF name = <<>>
    THEN [wallet |-> <<>>, err |-> <<ErrInvalidWalletName>>]
    ELSE LET got == GetWalletMetadata(st, name, io)
         IN  IF got.err # NoErr
             THEN [wallet |-> <<>>,
                   err |-> IF ErrorsIs(got.err, StorageErrWalletNotFound)
                           THEN <<ErrWalletNotFound>>
                           ELSE Wrap("failed to retrieve wallet", got.err)]
             ELSE got

\* DeleteWallet up to and including the storage service's existence check
ServiceDeleteBegin(st, name, io) ==
    IF name = <<>>
    THEN [proceed |-> FALSE, err |-> <<ErrInvalidWalletName>>]
    ELSE LET chk == DeleteWalletCheck(st, name, io)
         IN  [proceed |-> chk.proceed,
              err |-> IF chk.err = NoErr THEN NoErr
                      ELSE IF ErrorsIs(chk.err, StorageErrWalletNotFound)
                      THEN <<ErrWalletNotFound>>
                      ELSE Wrap("failed to delete wallet", chk.err)]

\* DeleteWallet from the backend Delete on
ServiceDeleteFinish(st, name, io) ==
    LET del == DeleteWalletRemove(st, name, io)
    IN  [st |-> del.st,
         err |-> IF del.err = NoErr THEN NoErr
                 ELSE IF ErrorsIs(del.err, StorageErrWalletNotFound)
                 THEN <<ErrWalletNotFound>>
                 ELSE Wrap("failed to delete wallet", del.err)]

ServiceListWallets(st, offset, limit, io) ==
    LET l == StorageListWallets(st, offset, limit, io)
    IN  IF l.err # NoErr
        THEN [keys |-> <<>>, err |-> Wrap("failed to list wallets", l.err),
              panicked |-> FALSE]
        ELSE l

\* SignTransaction and GetAddress up to the wallet they retrieve
RetrieveWallet(st, encryptionKey, name, io) ==
    LET got == StorageGetWallet(st, encryptionKey, name, io)
    IN  IF got.err # NoErr
        THEN [wallet |-> <<>>,
              err |-> IF ErrorsIs(got.err, StorageErrWalletNotFound)
                      THEN <<ErrWalletNotFound>>
                      ELSE Wrap("failed to retrieve wallet", got.err)]
        ELSE got

\* the deferred function of SignTransaction and GetAddress
ClearSensitive(w) ==
    [w EXCEPT !.PrivateKey = [i \in 1..Len(w.PrivateKey) |-> 0], !.Mnemonic = <<>>]

\* variant: SignTransaction that clears the wallet after the provider call
\* instead of in a deferred function
SignTransactionCallNoDefer(w, txData, outcome) ==
    LET r == ProviderSignTransaction(w.PrivateKey, w.CoinType, txData, outcome = "ok")
    IN  [obj |-> IF outcome = "panic" THEN w
                 ELSE [w EXCEPT !.PrivateKey = [i \in 1..Len(w.PrivateKey) |-> 0],
                                !.Mnemonic = <<>>],
         panicked |-> outcome = "panic",
         signature |-> IF outcome = "panic" THEN <<>> ELSE r.signature,
         err |-> IF outcome = "panic" \/ r.err = NoErr THEN NoErr
                 ELSE IF ErrorsIs(r.err, WalletErrSigningFailed) THEN <<ErrSigningFailed>>
                 ELSE IF ErrorsIs(r.err, WalletErrInvalidCoinType) THEN <<ErrInvalidCoinType>>
                 ELSE Wrap("failed to sign transaction", r.err)]

\* SignTransaction from the provider call on.  outcome is "ok", "fail" (the
\* native call failed) or "panic"; the deferred function runs in each case.
SignTransactionCall(w, txData, outcome) ==
    LET r == ProviderSignTransaction(w.PrivateKey, w.CoinType, txData, outcome = "ok")
    IN  [obj |-> ClearSensitive(w),
         panicked |-> outcome = "panic",
         signature |-> IF outcome = "panic" THEN <<>> ELSE r.signature,
         err |-> IF outcome = "panic" \/ r.err = NoErr THEN NoErr
                 ELSE IF ErrorsIs(r.err, WalletErrSigningFailed) THEN <<ErrSigningFailed>>
                 ELSE IF ErrorsIs(r.err, WalletErrInvalidCoinType) THEN <<ErrInvalidCoinType>>
                 ELSE Wrap("failed to sign transaction", r.err)]

\* GetAddress from the provider call on
GetAddressCall(w, coinType, derivationPath, outcome) ==
    LET r == DeriveAddress(w.Mnemonic, coinType, derivationPath, outcome = "ok")
    IN  [obj |-> ClearSensitive(w),
         panicked |-> outcome = "panic",
         address |-> IF outcome = "panic" THEN <<>> ELSE r.address,
         err |-> IF outcome = "panic" \/ r.err = NoErr THEN NoErr
                 ELSE IF ErrorsIs(r.err, WalletErrInvalidCoinType) THEN <<ErrInvalidCoinType>>
                 ELSE IF ErrorsIs(r.err, ErrAddressDerivation)
                 THEN Wrap("address derivation failed", r.err)
                 ELSE Wrap("failed to derive address", r.err)]

(***************************************************************************)
(* Request Router (backend/path_wallet.go)                                 *)
(***************************************************************************)
\* strings.Contains
Contains(s, sub) ==
    \E i \in 1..(Len(s) - Len(sub) + 1) : SubSeq(s, i, i + Len(sub) - 1) = sub

MaxWalletNameLen == 255
MaxDerivationPathLen == 100
MaxTxDataLen == 1048576

\* variant: validateWalletName without the check for path traversal
validateWalletNameNoTraversal(name) ==
    IF name = <<>> THEN <<"wallet name is required">>
    ELSE IF Len(name) > MaxWalletNameLen
    THEN <<"wallet name exceeds maximum length of 255 characters">>
    ELSE IF \E i \in 1..Len(name) : name[i] < 32 \/ name[i] = 127
    THEN <<"wallet name contains invalid control characters">>
    ELSE NoErr

\* the error validateWalletName returns: NoErr for a valid name
validateWalletName(name) ==
    IF name = <<>> THEN <<"wallet name is required">>
    ELSE IF Len(name) > MaxWalletNameLen
    THEN <<"wallet name exceeds maximum length of 255 characters">>
    ELSE IF Contains(name, <<46, 46>>) \/ Contains(name, <<47>>) \/ Contains(name, <<92>>)
    THEN <<"wallet name contains invalid characters">>
    ELSE IF \E i \in 1..Len(name) : name[i] < 32 \/ name[i] = 127
    THEN <<"wallet name contains invalid control characters">>
    ELSE NoErr

validateCoinType(coinType) ==
    IF coinType \notin {0, 60, 501} THEN <<"unsupported coin type">> ELSE NoErr

validateDerivationPath(path) ==
    IF path = <<>> THEN NoErr
    ELSE IF Len(path) > MaxDerivationPathLen
    THEN <<"derivation path exceeds maximum length of 100 characters">>
    ELSE IF ~HasPrefix(path, <<109, 47>>)
    THEN <<"derivation path must start with 'm/'">>
    ELSE IF \E i \in 1..Len(path) :
               ~((path[i] >= 48 /\ path[i] <= 57) \/ path[i] = 47 \/ path[i] = 39 \/ path[i] = 109)
    THEN <<"derivation path contains invalid character">>
    ELSE NoErr

\* A response is the Data map of a *logical.Response (resp = TRUE) together
\* with the Go error the handler returned.  A value of the map is a pair of
\* its kind and its content: "str" a string or byte string that the handler
\* computed, "msg" the messages of an error text, "int", "bool", "list".
StrVal(v) == <<"str", v>>
IntVal(v) == <<"int", v>>
BoolVal(v) == <<"bool", v>>
MsgVal(v) == <<"msg", v>>
ListVal(v) == <<"list", v>>

NoData == [f \in {} |-> <<>>]

NoResponse == [resp |-> FALSE, data |-> NoData, err |-> NoErr]

Response(data) == [resp |-> TRUE, data |-> data, err |-> NoErr]

ErrorResponse(text) == Response("error" :> MsgVal(text))

\* time.Time.Format("2006-01-02T15:04:05Z07:00") of a UTC time: t seconds
\* after 2026-01-01T00:00:00Z, t < 10
FormatTime(t) ==
    <<50, 48, 50, 54, 45, 48, 49, 45, 48, 49, 84, 48, 48, 58, 48, 48, 58, 48, 48 + t, 90>>

\* base64.StdEncoding.EncodeToString of a signature
EncodeSignature(signature) == StdEncodeToString(signature)

\* variant: handleError without the case of the wallet that is not found
handleErrorNoNotFound(err) ==
    IF ErrorsIs(err, ErrWalletExists) \/ ErrorsIs(err, StorageErrWalletExists)
    THEN Response(("error" :> MsgVal(<<"wallet already exists">>)) @@ ("http_status_code" :> IntVal(409)))
    ELSE [resp |-> FALSE, data |-> NoData, err |-> Wrap("internal error", err)]

handleError(err) ==
    IF ErrorsIs(err, ErrWalletNotFound) \/ ErrorsIs(err, StorageErrWalletNotFound)
    THEN Response(("error" :> MsgVal(<<"wallet not found">>)) @@ ("http_status_code" :> IntVal(404)))
    ELSE IF ErrorsIs(err, ErrWalletExists) \/ ErrorsIs(err, StorageErrWalletExists)
    THEN Response(("error" :> MsgVal(<<"wallet already exists">>)) @@ ("http_status_code" :> IntVal(409)))
    ELSE IF ErrorsIs(err, ErrInvalidCoinType) THEN ErrorResponse(<<"invalid coin type">>)
    ELSE IF ErrorsIs(err, ErrInvalidMnemonic) THEN ErrorResponse(<<"invalid mnemonic phrase">>)
    ELSE IF ErrorsIs(err, ErrInvalidTxData) THEN ErrorResponse(<<"invalid transaction data">>)
    ELSE IF ErrorsIs(err, ErrSigningFailed) THEN ErrorResponse(<<"transaction signing failed">>)
    ELSE IF ErrorsIs(err, ErrInvalidWalletName) THEN ErrorResponse(<<"invalid wallet name">>)
    ELSE [resp |-> FALSE, data |-> NoData, err |-> Wrap("internal error", err)]

\* variant: a response Data that carries the mnemonic of the wallet
WalletDataWithMnemonic(wallet) ==
    ("name" :> StrVal(wallet.Name)) @@ ("coin_type" :> IntVal(wallet.CoinType)) @@
    ("address" :> StrVal(wallet.Address)) @@ ("public_key" :> StrVal(wallet.PublicKey)) @@
    ("created_at" :> StrVal(FormatTime(wallet.CreatedAt))) @@
    ("mnemonic" :> StrVal(wallet.Mnemonic))

\* the Data of the responses of handleWalletCreate and handleWalletRead
WalletData(wallet) ==
    ("name" :> StrVal(wallet.Name)) @@ ("coin_type" :> IntVal(wallet.CoinType)) @@
    ("address" :> StrVal(wallet.Address)) @@ ("public_key" :> StrVal(wallet.PublicKey)) @@
    ("created_at" :> StrVal(FormatTime(wallet.CreatedAt)))

\* uint32(coinTypeRaw.(int)), on integers of UintBits bits
UintBits == 10

ToUint32(raw) == raw % (2 ^ UintBits)

\* variant: a decoder that takes every string and drops what it cannot read
DecodeTxDataLenient(tx) == [data |-> [len |-> ((tx.len + 3) \div 4) * 3], err |-> NoErr]

\* tx_data: a string of len characters, all "A" when wellFormed and with a
\* character outside the base64 alphabet otherwise.  Standard base64 turns
\* four characters into three bytes; the decoded transaction is len zero
\* bytes, written [len |-> n].
DecodeTxData(tx) ==
    IF ~tx.wellFormed \/ tx.len % 4 # 0
    THEN [data |-> [len |-> 0], err |-> <<"illegal base64 data">>]
    ELSE [data |-> [len |-> (tx.len \div 4) * 3], err |-> NoErr]

\* fmt.Sscanf(coinStr, "%d", &coinType) with coinType a uint32 (of UintBits
\* bits): the number the leading digits spell, whatever follows them; an
\* error when there is no leading digit or the number does not fit
IsDigit(c) == c >= 48 /\ c <= 57

RECURSIVE LeadingNumber(_, _)
LeadingNumber(str, acc) ==
    IF str = <<>> \/ ~IsDigit(Head(str)) THEN acc
    ELSE LeadingNumber(Tail(str), 10 * acc + (Head(str) - 48))

Sscanf(coinStr) ==
    IF coinStr = <<>> \/ ~IsDigit(Head(coinStr))
    THEN [value |-> 0, err |-> <<"expected integer">>]
    ELSE IF LeadingNumber(coinStr, 0) >= 2 ^ UintBits
    THEN [value |-> 0, err |-> <<"unsigned integer overflow">>]
    ELSE [value |-> LeadingNumber(coinStr, 0), err |-> NoErr]

\* variant: SignTransaction that retrieves the wallet before it looks at the
\* transaction
SignTransactionBeginRetrieveFirst(st, encryptionKey, name, txData, io) ==
    IF name = <<>> THEN [wallet |-> <<>>, err |-> <<ErrInvalidWalletName>>]
    ELSE IF RetrieveWallet(st, encryptionKey, name, io).err # NoErr
    THEN RetrieveWallet(st, encryptionKey, name, io)
    ELSE IF txData.len = 0 THEN [wallet |-> <<>>, err |-> <<ErrInvalidTxData>>]
    ELSE RetrieveWallet(st, encryptionKey, name, io)

\* SignTransaction up to the wallet it retrieves
SignTransactionBegin(st, encryptionKey, name, txData, io) ==
    IF name = <<>> THEN [wallet |-> <<>>, err |-> <<ErrInvalidWalletName>>]
    ELSE IF txData.len = 0 THEN [wallet |-> <<>>, err |-> <<ErrInvalidTxData>>]
    ELSE RetrieveWallet(st, encryptionKey, name, io)

\* GetAddress up to the wallet it retrieves
GetAddressBegin(st, encryptionKey, name, io) ==
    IF name = <<>> THEN [wallet |-> <<>>, err |-> <<ErrInvalidWalletName>>]
    ELSE RetrieveWallet(st, encryptionKey, name, io)

\* logical.ListResponse
ListResponse(keys) ==
    IF keys = <<>> THEN Response(NoData) ELSE Response("keys" :> ListVal(keys))

(***************************************************************************)
(* State                                                                   *)
(***************************************************************************)
VARIABLES
    store,          \* the persistent backend: key -> stored encryptedWallet
    encryptionKey,  \* StorageService.encryptionKey of the running plugin
    pc,             \* where each request process is
    req,            \* the request a process handles
    walletObj,      \* walletObj of the service call of a process: its memory
    resp,           \* what the handler returned
    called,         \* history: the collaborators the current request reached
    tampers,        \* history: how often a stored blob was modified from outside
    created,        \* history: the responses of the successful creates of a
                    \* name since its last successful delete, each with the
                    \* overlap of its create
    delCount,       \* history: the successful deletes of a name since the
                    \* last Put of it
    overlap         \* history: the create of a process was past its existence
                    \* check while another create of the same name was

vars == <<store, encryptionKey, pc, req, walletObj, resp, called, tampers, created, delCount,
          overlap>>

history == <<created, delCount, overlap>>

WalletName(i) == <<119, 48 + i>>

Names == {WalletName(i) : i \in 1..NumNames}

\* the inputs of the requests
ReqNames == Names \cup {<<46, 46>>}
ReqCoins == {<<>>, <<0>>, <<60>>, <<7>>}
ReqMnemonics == {<<>>, MnemonicPhrase(1), <<120>>}
ReqTxData == {[len |-> 0, wellFormed |-> TRUE], [len |-> 4, wellFormed |-> TRUE],
              [len |-> 4, wellFormed |-> FALSE], [len |-> MaxTxDataLen + 4, wellFormed |-> TRUE]}
ReqCoinStrs == {<<>>, <<54, 48>>, <<55>>, <<120>>}
ReqPaths == {<<>>, <<109, 47, 48>>, <<120>>}
ReqOffsets == {-1, 0}
ReqLimits == {-1, 0, 1}

\* the request of a process: the fields as they were sent (coinRaw, coinStr,
\* txRaw, path, offset, limit) and what the handler made of them (coinType,
\* txData)
NoRequest ==
    [op |-> "none", name |-> <<>>, coinRaw |-> <<>>, coinStr |-> <<>>, coinType |-> 0,
     txRaw |-> [len |-> 0, wellFormed |-> TRUE], txData |-> [len |-> 0], path |-> <<>>,
     offset |-> 0, limit |-> 0]

Request(op, name) == [NoRequest EXCEPT !.op = op, !.name = name]

Init ==
    /\ store = [k \in {} |-> NoWallet]
    /\ encryptionKey = 1
    /\ pc = [p \in Procs |-> "idle"]
    /\ req = [p \in Procs |-> NoRequest]
    /\ walletObj = [p \in Procs |-> NoWallet]
    /\ resp = [p \in Procs |-> NoResponse]
    /\ called = [p \in Procs |-> {}]
    /\ tampers = 0
    /\ created = [n \in Names |-> {}]
    /\ delCount = [n \in Names |-> 0]
    /\ overlap = [p \in Procs |-> FALSE]

InFlight(p) == pc[p] \notin {"idle", "done"}

\* p can take a request.  The delivery of a response (Deliver) touches
\* nothing another process reads, so it commutes with every step of the
\* others; it is taken before the next request is accepted.
Ready(p) == pc[p] = "idle" /\ \A q \in Procs : pc[q] # "done"

\* variant: the calls that hold the wallet of one name share one wallet
\* object
StepShared(p, newpc, request, obj, response, calls) ==
    /\ pc' = [pc EXCEPT ![p] = newpc]
    /\ req' = [req EXCEPT ![p] = request]
    /\ walletObj' = [q \in Procs |->
                        IF q = p \/ (/\ pc[q] \in {"sign_call", "address_call"}
                                     /\ obj.Name # <<>> /\ walletObj[q].Name = obj.Name)
                        THEN obj ELSE walletObj[q]]
    /\ resp' = [resp EXCEPT ![p] = response]
    /\ called' = [called EXCEPT ![p] = calls]

\* the process p moves to newpc
Step(p, newpc, request, obj, response, calls) ==
    /\ pc' = [pc EXCEPT ![p] = newpc]
    /\ req' = [req EXCEPT ![p] = request]
    /\ walletObj' = [walletObj EXCEPT ![p] = obj]
    /\ resp' = [resp EXCEPT ![p] = response]
    /\ called' = [called EXCEPT ![p] = calls]

\* the handler of p returns with text before it reached the service
Reject(p, request, text) ==
    /\ Step(p, "done", request, NoWallet, ErrorResponse(text), {})
    /\ UNCHANGED <<store, encryptionKey, tampers, history>>

\* the response of p is handed to the client; the request is over
Deliver(p) ==
    /\ pc[p] = "done"
    /\ Step(p, "idle", NoRequest, NoWallet, NoResponse, {})
    /\ UNCHANGED <<store, encryptionKey, tampers, history>>

\* what is left of a request whose service call panicked: no response
Panicked == [resp |-> FALSE, data |-> NoData, err |-> <<"panic">>]

(***************************************************************************)
(* handleWalletCreate                                                      *)
(***************************************************************************)
\* handleWalletCreate up to StoreWallet's existence check, for a request
\* with a name of names and a coin_type of coins
handleWalletCreate(p, names, coins) ==
    /\ Ready(p)
    /\ \E name \in names :
          IF validateWalletName(name) # NoErr
          THEN Reject(p, Request("create", name), validateWalletName(name))
          ELSE \E coin \in coins :
             LET r == [Request("create", name) EXCEPT !.coinRaw = coin]
             IN  IF coin = <<>>
                 THEN Reject(p, r, <<"coin_type is required">>)
                 ELSE IF validateCoinType(ToUint32(coin[1])) # NoErr
                 THEN Reject(p, r, validateCoinType(ToUint32(coin[1])))
                 ELSE \E mnemonic \in ReqMnemonics, fresh \in GenMnemonics,
                         native \in BOOLEAN, now \in 1..MaxTime, io \in BOOLEAN :
                    LET coinType == ToUint32(coin[1])
                        b == CreateWalletBegin(store, name, coinType, mnemonic, fresh,
                                               native, now, io)
                        calls == {"service", "provider"} \cup
                                 (IF b.keys THEN {"get"} ELSE {})
                        racing == {q \in Procs \ {p} :
                                      pc[q] = "create_put" /\ req[q].name = name}
                    IN  /\ IF b.proceed
                           THEN /\ Step(p, "create_put", [r EXCEPT !.coinType = coinType],
                                        b.obj, NoResponse, calls)
                                /\ overlap' = [q \in Procs |->
                                                  IF q = p THEN racing # {}
                                                  ELSE overlap[q] \/ q \in racing]
                           ELSE /\ Step(p, "done", [r EXCEPT !.coinType = coinType],
                                        b.obj, handleError(b.err), calls)
                                /\ UNCHANGED overlap
                        /\ UNCHANGED <<store, encryptionKey, tampers, created, delCount>>

HandleWalletCreate(p) == handleWalletCreate(p, ReqNames, ReqCoins)

\* the rest of handleWalletCreate: encryption, the backend Put, the response
CreatePut(p) ==
    /\ pc[p] = "create_put"
    /\ \E r1 \in 0..(NumNonces - 1), r2 \in 0..(NumNonces - 1),
          randOk1 \in BOOLEAN, randOk2 \in BOOLEAN, io \in BOOLEAN :
          LET f == CreateWalletFinish(store, encryptionKey, walletObj[p], r1, r2,
                                      randOk1, randOk2, io)
              n == req[p].name
          IN  /\ store' = f.st
              /\ IF f.err = NoErr
                 THEN /\ Step(p, "done", req[p], walletObj[p],
                              Response(WalletData(f.wallet[1])), called[p] \cup {"put"})
                      /\ created' = [created EXCEPT ![n] = @ \cup
                                        {[data |-> WalletData(f.wallet[1]),
                                          raced |-> overlap[p]]}]
                      /\ delCount' = [delCount EXCEPT ![n] = 0]
                 ELSE /\ Step(p, "done", req[p], walletObj[p], handleError(f.err), called[p])
                      /\ UNCHANGED <<created, delCount>>
              /\ overlap' = [overlap EXCEPT ![p] = FALSE]
              /\ UNCHANGED <<encryptionKey, tampers>>

(***************************************************************************)
(* handleWalletRead                                                        *)
(***************************************************************************)
handleWalletRead(p, names) ==
    /\ Ready(p)
    /\ \E name \in names :
          LET r == Request("read", name)
          IN  IF validateWalletName(name) # NoErr
              THEN Reject(p, r, validateWalletName(name))
              ELSE \E io \in BOOLEAN :
                 LET got == ServiceGetWallet(store, name, io)
                 IN  /\ Step(p, "done", r, NoWallet,
                             IF got.err # NoErr THEN handleError(got.err)
                             ELSE Response(WalletData(got.wallet[1])),
                             {"service", "get"})
                     /\ UNCHANGED <<store, encryptionKey, tampers, history>>

HandleWalletRead(p) == handleWalletRead(p, ReqNames)

(***************************************************************************)
(* handleWalletDelete                                                      *)
(***************************************************************************)
\* handleWalletDelete up to DeleteWallet's existence check
handleWalletDelete(p, names) ==
    /\ Ready(p)
    /\ \E name \in names :
          LET r == Request("delete", name)
          IN  IF validateWalletName(name) # NoErr
              THEN Reject(p, r, validateWalletName(name))
              ELSE \E io \in BOOLEAN :
                 LET b == ServiceDeleteBegin(store, name, io)
                 IN  /\ IF b.proceed
                        THEN Step(p, "delete_remove", r, NoWallet, NoResponse,
                                  {"service", "get"})
                        ELSE Step(p, "done", r, NoWallet, handleError(b.err),
                                  {"service", "get"})
                     /\ UNCHANGED <<store, encryptionKey, tampers, history>>

HandleWalletDelete(p) == handleWalletDelete(p, ReqNames)

\* the rest of handleWalletDelete: the backend Delete, the response
DeleteRemove(p) ==
    /\ pc[p] = "delete_remove"
    /\ \E io \in BOOLEAN :
          LET f == ServiceDeleteFinish(store, req[p].name, io)
              n == req[p].name
          IN  /\ store' = f.st
              /\ IF f.err = NoErr
                 THEN /\ Step(p, "done", req[p], NoWallet,
                              Response("deleted" :> BoolVal(TRUE)),
                              called[p] \cup {"delete"})
                      /\ created' = [created EXCEPT ![n] = {}]
                      /\ delCount' = [delCount EXCEPT ![n] = @ + 1]
                      /\ UNCHANGED overlap
                 ELSE /\ Step(p, "done", req[p], NoWallet, handleError(f.err), called[p])
                      /\ UNCHANGED history
              /\ UNCHANGED <<encryptionKey, tampers>>

(***************************************************************************)
(* handleWalletList, handleHealth                                          *)
(***************************************************************************)
handleWalletList(p, offsets, limits) ==
    /\ Ready(p)
    /\ \E offset \in offsets :
          IF offset < 0
          THEN Reject(p, [Request("list", <<>>) EXCEPT !.offset = offset],
                      <<"offset must be non-negative">>)
          ELSE \E limit \in limits :
             LET r == [Request("list", <<>>) EXCEPT !.offset = offset, !.limit = limit]
             IN  IF limit < 0 THEN Reject(p, r, <<"limit must be non-negative">>)
                 ELSE \E io \in BOOLEAN :
                    LET l == ServiceListWallets(store, offset, limit, io)
                    IN  /\ Step(p, "done", r, NoWallet,
                                IF l.panicked THEN Panicked
                                ELSE IF l.err # NoErr THEN handleError(l.err)
                                ELSE ListResponse(l.keys),
                                {"service", "list"})
                        /\ UNCHANGED <<store, encryptionKey, tampers, history>>

HandleWalletList(p) == handleWalletList(p, ReqOffsets, ReqLimits)

HandleHealth(p) ==
    /\ Ready(p)
    /\ Step(p, "done", Request("health", <<>>), NoWallet,
            Response(("status" :> MsgVal(<<"healthy">>)) @@ ("version" :> MsgVal(<<"1.0.0">>))),
            {})
    /\ UNCHANGED <<store, encryptionKey, tampers, history>>

(***************************************************************************)
(* handleWalletSign                                                        *)
(***************************************************************************)
\* handleWalletSign up to the wallet SignTransaction retrieves and decrypts
handleWalletSign(p, names, txs) ==
    /\ Ready(p)
    /\ \E name \in names :
          IF validateWalletName(name) # NoErr
          THEN Reject(p, Request("sign", name), validateWalletName(name))
          ELSE \E tx \in txs :
             LET r == [Request("sign", name) EXCEPT !.txRaw = tx]
             IN  IF tx.len = 0
                 THEN Reject(p, r, <<"tx_data is required">>)
                 ELSE IF tx.len > MaxTxDataLen
                 THEN Reject(p, r, <<"transaction data exceeds maximum size of 1MB">>)
                 ELSE IF DecodeTxData(tx).err # NoErr
                 THEN Reject(p, r, <<"invalid tx_data: must be base64-encoded">>)
                 ELSE IF DecodeTxData(tx).data.len = 0
                 THEN Reject(p, r, <<"transaction data cannot be empty">>)
                 ELSE \E io \in BOOLEAN :
                    LET txData == DecodeTxData(tx).data
                        b == SignTransactionBegin(store, encryptionKey, name, txData, io)
                    IN  /\ IF b.err = NoErr
                           THEN Step(p, "sign_call", [r EXCEPT !.txData = txData],
                                     b.wallet[1], NoResponse, {"service", "get"})
                           ELSE Step(p, "done", [r EXCEPT !.txData = txData],
                                     NoWallet, handleError(b.err), {"service", "get"})
                        /\ UNCHANGED <<store, encryptionKey, tampers, history>>

HandleWalletSign(p) == handleWalletSign(p, ReqNames, ReqTxData)

\* the rest of handleWalletSign: the provider call, the deferred clearing,
\* the response
SignCall(p) ==
    /\ pc[p] = "sign_call"
    /\ \E outcome \in {"ok", "fail", "panic"} :
          LET c == SignTransactionCall(walletObj[p], req[p].txData, outcome)
          IN  Step(p, "done", req[p], c.obj,
                   IF c.panicked THEN Panicked
                   ELSE IF c.err # NoErr THEN handleError(c.err)
                   ELSE Response("signed_tx" :> StrVal(EncodeSignature(c.signature))),
                   called[p] \cup {"provider"})
    /\ UNCHANGED <<store, encryptionKey, tampers, history>>

(***************************************************************************)
(* handleWalletAddress                                                     *)
(***************************************************************************)
\* handleWalletAddress up to the wallet GetAddress retrieves and decrypts
handleWalletAddress(p, names, coinStrs, paths) ==
    /\ Ready(p)
    /\ \E name \in names :
          IF validateWalletName(name) # NoErr
          THEN Reject(p, Request("address", name), validateWalletName(name))
          ELSE \E coinStr \in coinStrs :
             LET r == [Request("address", name) EXCEPT !.coinStr = coinStr]
             IN  IF coinStr = <<>>
                 THEN Reject(p, r, <<"coin type is required">>)
                 ELSE IF Sscanf(coinStr).err # NoErr
                 THEN Reject(p, r, <<"invalid coin type: must be a number">>)
                 ELSE IF validateCoinType(Sscanf(coinStr).value) # NoErr
                 THEN Reject(p, r, validateCoinType(Sscanf(coinStr).value))
                 ELSE \E path \in paths :
                    LET rr == [r EXCEPT !.coinType = Sscanf(coinStr).value, !.path = path]
                    IN  IF path # <<>> /\ validateDerivationPath(path) # NoErr
                        THEN Reject(p, [r EXCEPT !.path = path], validateDerivationPath(path))
                        ELSE \E io \in BOOLEAN :
                           LET b == GetAddressBegin(store, encryptionKey, name, io)
                           IN  /\ IF b.err = NoErr
                                  THEN Step(p, "address_call", rr, b.wallet[1], NoResponse,
                                            {"service", "get"})
                                  ELSE Step(p, "done", rr, NoWallet, handleError(b.err),
                                            {"service", "get"})
                               /\ UNCHANGED <<store, encryptionKey, tampers, history>>

HandleWalletAddress(p) == handleWalletAddress(p, ReqNames, ReqCoinStrs, ReqPaths)

\* the rest of handleWalletAddress: the provider call, the deferred
\* clearing, the response
AddressCall(p) ==
    /\ pc[p] = "address_call"
    /\ \E outcome \in {"ok", "fail", "panic"} :
          LET c == GetAddressCall(walletObj[p], req[p].coinType, req[p].path, outcome)
          IN  Step(p, "done", req[p], c.obj,
                   IF c.panicked THEN Panicked
                   ELSE IF c.err # NoErr THEN handleError(c.err)
                   ELSE Response(("address" :> StrVal(c.address)) @@
                                 ("coin_type" :> IntVal(req[p].coinType))),
                   called[p] \cup {"provider"})
    /\ UNCHANGED <<store, encryptionKey, tampers, history>>

(***************************************************************************)
(* The environment: a party that writes the backend directly, and a       *)
(* reload of the plugin (Factory draws a new encryption key).              *)
(***************************************************************************)
\* the blobs an outside writer can make of a stored blob: the last
\* character changed, the first replaced by a character outside the
\* alphabet, the blob cut after the nonce or inside it.  Like a request, the
\* write is taken after the responses that are due have been delivered.
Tampered(blob) ==
    {[blob EXCEPT ![i] = @ + 1] : i \in {Len(blob)} \cap DOMAIN blob}
    \cup {[blob EXCEPT ![i] = InvalidChar] : i \in {1} \cap DOMAIN blob}
    \cup {Prefix(blob, n) : n \in {Len(blob) - 1, NonceSize - 1} \cap 0..Len(blob)}

Tamper ==
    /\ tampers < MaxTamper
    /\ \A p \in Procs : pc[p] # "done"
    /\ \E k \in DOMAIN store :
          \/ \E b \in Tampered(store[k].MnemonicEncrypted) :
                store' = [store EXCEPT ![k].MnemonicEncrypted = b]
          \/ \E b \in Tampered(store[k].PrivateKeyEncrypted) :
                store' = [store EXCEPT ![k].PrivateKeyEncrypted = b]
    /\ tampers' = tampers + 1
    /\ UNCHANGED <<encryptionKey, pc, req, walletObj, resp, called, history>>

\* Factory: the plugin starts again over the same backend, with no request
\* in progress and a key drawn afresh, which differs from every key drawn
\* before
Factory ==
    /\ \A p \in Procs : pc[p] = "idle"
    /\ encryptionKey < NumKeys
    /\ encryptionKey' = encryptionKey + 1
    /\ UNCHANGED <<store, pc, req, walletObj, resp, called, tampers, history>>

(***************************************************************************)
(* Specifications                                                          *)
(***************************************************************************)
Next ==
    \/ \E p \in Procs : HandleWalletCreate(p)
    \/ \E p \in Procs : CreatePut(p)
    \/ \E p \in Procs : HandleWalletRead(p)
    \/ \E p \in Procs : HandleWalletDelete(p)
    \/ \E p \in Procs : DeleteRemove(p)
    \/ \E p \in Procs : HandleWalletList(p)
    \/ \E p \in Procs : HandleHealth(p)
    \/ \E p \in Procs : HandleWalletSign(p)
    \/ \E p \in Procs : SignCall(p)
    \/ \E p \in Procs : HandleWalletAddress(p)
    \/ \E p \in Procs : AddressCall(p)
    \/ \E p \in Procs : Deliver(p)
    \/ Tamper
    \/ Factory

\* requests run concurrently
Spec == Init /\ [][Next]_vars

\* p is the only process that handles a request
Alone(p) == \A q \in Procs \ {p} : pc[q] = "idle"

\* requests run one after the other: a request is accepted when no other is
\* in progress
SeqNext ==
    \/ \E p \in Procs : Alone(p) /\ HandleWalletCreate(p)
    \/ \E p \in Procs : CreatePut(p)
    \/ \E p \in Procs : Alone(p) /\ HandleWalletRead(p)
    \/ \E p \in Procs : Alone(p) /\ HandleWalletDelete(p)
    \/ \E p \in Procs : DeleteRemove(p)
    \/ \E p \in Procs : Alone(p) /\ HandleWalletList(p)
    \/ \E p \in Procs : Alone(p) /\ HandleHealth(p)
    \/ \E p \in Procs : Alone(p) /\ HandleWalletSign(p)
    \/ \E p \in Procs : SignCall(p)
    \/ \E p \in Procs : Alone(p) /\ HandleWalletAddress(p)
    \/ \E p \in Procs : AddressCall(p)
    \/ \E p \in Procs : Deliver(p)
    \/ Tamper
    \/ Factory

SeqSpec == Init /\ [][SeqNext]_vars

(***************************************************************************)
(* Requests with names, coin types and transactions of every kind the      *)
(* handlers tell apart, one request after the other                        *)
(***************************************************************************)
\* names: the empty one, with a slash, a backslash, a line feed, a DEL, and
\* one character longer than the longest allowed
WideNames ==
    ReqNames \cup {<<>>, <<119, 47, 49>>, <<119, 92, 49>>, <<119, 10>>, <<127>>,
                   [i \in 1..(MaxWalletNameLen + 1) |-> 119]}

\* coin_type: also Solana, a negative number, and numbers that do not fit in
\* a uint32
WideCoins ==
    ReqCoins \cup {<<CoinTypeSolana>>, <<-1>>, <<2 ^ UintBits>>,
                   <<2 ^ UintBits + CoinTypeEthereum>>, <<CoinTypeEthereum - 2 ^ UintBits>>}

\* tx_data: also a length that is no multiple of four, the longest string
\* the handler accepts, and the shortest that decodes to more than
\* MaxTxDataLen bytes, well-formed and not
WideTxData ==
    ReqTxData \cup {[len |-> 5, wellFormed |-> TRUE],
                    [len |-> MaxTxDataLen, wellFormed |-> TRUE],
                    [len |-> 4 * ((MaxTxDataLen \div 3) + 1), wellFormed |-> TRUE],
                    [len |-> 4 * ((MaxTxDataLen \div 3) + 1), wellFormed |-> FALSE]}

\* coin: also Solana, a number followed by a letter, a negative number, a
\* number that does not fit in a uint32, and one with a sign
WideCoinStrs ==
    ReqCoinStrs \cup {<<53, 48, 49>>, <<54, 48, 120>>, <<45, 49>>, <<49, 48, 56, 52>>,
                      <<43, 54, 48>>}

\* derivation_path: also one without the root marker, one with a character
\* that is not allowed after it, the longest allowed and one longer
WidePaths ==
    ReqPaths \cup {<<48, 47, 49>>, <<109, 47, 120>>,
                   <<109, 47>> \o [i \in 1..(MaxDerivationPathLen - 2) |-> 48],
                   <<109, 47>> \o [i \in 1..(MaxDerivationPathLen - 1) |-> 48]}

WideNext ==
    \/ \E p \in Procs : Alone(p) /\ handleWalletCreate(p, WideNames, WideCoins)
    \/ \E p \in Procs : CreatePut(p)
    \/ \E p \in Procs : Alone(p) /\ handleWalletRead(p, WideNames)
    \/ \E p \in Procs : Alone(p) /\ handleWalletDelete(p, WideNames)
    \/ \E p \in Procs : DeleteRemove(p)
    \/ \E p \in Procs : Alone(p) /\ handleWalletSign(p, WideNames, WideTxData)
    \/ \E p \in Procs : SignCall(p)
    \/ \E p \in Procs : Alone(p) /\ handleWalletAddress(p, WideNames, WideCoinStrs, WidePaths)
    \/ \E p \in Procs : AddressCall(p)
    \/ \E p \in Procs : Deliver(p)

WideSpec == Init /\ [][WideNext]_vars

(***************************************************************************)
(* ListWallets over backends with several wallets                          *)
(***************************************************************************)
MaxList == 3

ListNames == {WalletName(i) : i \in 1..MaxList}

\* the backend after the wallets of names were created, one after the other
RECURSIVE StoreOf(_)
StoreOf(names) ==
    IF names = {} THEN [k \in {} |-> NoWallet]
    ELSE LET n    == CHOOSE x \in names : TRUE
             rest == StoreOf(names \ {n})
             b    == CreateWalletBegin(rest, n, CoinTypeBitcoin, <<>>, MnemonicPhrase(1),
                                       TRUE, 1, TRUE)
         IN  CreateWalletFinish(rest, 1, b.obj, 0, 0, TRUE, TRUE, TRUE).st

\* offset and limit of the list requests: small ones around the number of
\* wallets, and the largest int
ListOffsets == 0..(MaxList + 1) \cup {MaxInt}
ListLimits == 0..(MaxList + 1) \cup {MaxInt}

ListInit ==
    /\ store \in {StoreOf(S) : S \in SUBSET ListNames}
    /\ encryptionKey = 1
    /\ pc = [p \in Procs |-> "idle"]
    /\ req = [p \in Procs |-> NoRequest]
    /\ walletObj = [p \in Procs |-> NoWallet]
    /\ resp = [p \in Procs |-> NoResponse]
    /\ called = [p \in Procs |-> {}]
    /\ tampers = 0
    /\ created = [n \in Names |-> {}]
    /\ delCount = [n \in Names |-> 0]
    /\ overlap = [p \in Procs |-> FALSE]

ListNext ==
    \/ \E p \in Procs : handleWalletList(p, ListOffsets, ListLimits)
    \/ \E p \in Procs : Deliver(p)

\* list requests on a backend that holds any of the wallets of ListNames
ListSpec == ListInit /\ [][ListNext]_vars

(***************************************************************************)
(* StoreWallet and GetWallet of the storage service, on wallets with any   *)
(* mnemonic and private key                                                *)
(***************************************************************************)
\* the byte strings of up to two bytes over the least and the greatest byte
PlainBytes == {0, 255}

PlainTexts ==
    {<<>>} \cup {<<a>> : a \in PlainBytes} \cup {<<a, b>> : a \in PlainBytes, b \in PlainBytes}

\* the draws of the random source: one more than the requests use
CryptoNonces == 0..NumNonces

\* every process has a wallet of its own name, with the mnemonic and the
\* private key drawn, and the key of the service is any key
CryptoInit ==
    /\ store = [k \in {} |-> NoWallet]
    /\ encryptionKey \in 1..NumKeys
    /\ pc = [p \in Procs |-> "idle"]
    /\ req = [p \in Procs |-> NoRequest]
    /\ \E x \in PlainTexts, y \in PlainTexts :
          walletObj = [p \in Procs |->
                          [NoWallet EXCEPT !.Name = WalletName(p), !.Mnemonic = x,
                                           !.PrivateKey = y, !.CreatedAt = 1]]
    /\ resp = [p \in Procs |-> NoResponse]
    /\ called = [p \in Procs |-> {}]
    /\ tampers = 0
    /\ created = [n \in Names |-> {}]
    /\ delCount = [n \in Names |-> 0]
    /\ overlap = [p \in Procs |-> FALSE]

\* StoreWallet(walletObj[p])
CryptoStore(p) ==
    /\ pc[p] = "idle"
    /\ \E io \in BOOLEAN :
          LET chk == StoreWalletCheck(store, walletObj[p], io)
              r   == Request("store", walletObj[p].Name)
          IN  IF ~chk.proceed
              THEN /\ Step(p, "done", r, walletObj[p],
                           [resp |-> FALSE, data |-> NoData, err |-> chk.err], {"get"})
                   /\ UNCHANGED store
              ELSE \E r1 \in CryptoNonces, r2 \in CryptoNonces,
                      randOk1 \in BOOLEAN, randOk2 \in BOOLEAN, ioPut \in BOOLEAN :
                 LET put == StoreWalletPut(store, encryptionKey, walletObj[p], r1, r2,
                                           randOk1, randOk2, ioPut)
                 IN  /\ store' = put.st
                     /\ IF put.err = NoErr
                        THEN Step(p, "stored", r, walletObj[p], NoResponse, {"get", "put"})
                        ELSE Step(p, "done", r, walletObj[p],
                                  [resp |-> FALSE, data |-> NoData, err |-> put.err], {"get"})
    /\ UNCHANGED <<encryptionKey, tampers, history>>

\* GetWallet(name): walletObj[p] becomes the wallet it returns
CryptoLoad(p) ==
    /\ pc[p] = "stored"
    /\ \E io \in BOOLEAN :
          LET got == StorageGetWallet(store, encryptionKey, req[p].name, io)
          IN  Step(p, "done", Request("getFull", req[p].name),
                   IF got.err = NoErr THEN got.wallet[1] ELSE walletObj[p],
                   [resp |-> FALSE, data |-> NoData, err |-> got.err], {"get"})
    /\ UNCHANGED <<store, encryptionKey, tampers, history>>

CryptoNext ==
    \/ \E p \in Procs : CryptoStore(p)
    \/ \E p \in Procs : CryptoLoad(p)

CryptoSpec == CryptoInit /\ [][CryptoNext]_vars

(***************************************************************************)
(* Creates and deletes of several names, one request after the other, with *)
(* list and read requests in between                                       *)
(***************************************************************************)
LifeInit ==
    /\ store = [k \in {} |-> NoWallet]
    /\ encryptionKey = 1
    /\ pc = [p \in Procs |-> "idle"]
    /\ req = [p \in Procs |-> NoRequest]
    /\ walletObj = [p \in Procs |-> NoWallet]
    /\ resp = [p \in Procs |-> NoResponse]
    /\ called = [p \in Procs |-> {}]
    /\ tampers = 0
    /\ created = [n \in ListNames |-> {}]
    /\ delCount = [n \in ListNames |-> 0]
    /\ overlap = [p \in Procs |-> FALSE]

LifeNext ==
    \/ \E p \in Procs : Alone(p) /\ handleWalletCreate(p, ListNames, {<<CoinTypeBitcoin>>})
    \/ \E p \in Procs : CreatePut(p)
    \/ \E p \in Procs : Alone(p) /\ handleWalletDelete(p, ListNames)
    \/ \E p \in Procs : DeleteRemove(p)
    \/ \E p \in Procs : Alone(p) /\ handleWalletList(p, {0}, {0})
    \/ \E p \in Procs : Alone(p) /\ handleWalletRead(p, ListNames)
    \/ \E p \in Procs : Deliver(p)

LifeSpec == LifeInit /\ [][LifeNext]_vars

(***************************************************************************)
(* The WalletService called directly, without the handlers in front of it  *)
(***************************************************************************)
\* the arguments of the calls: the empty name among the names, an
\* unsupported coin type, the empty transaction, negative offset and limit
DirectNames == Names \cup {<<>>}
DirectCoins == {CoinTypeBitcoin, CoinTypeEthereum, 7}
DirectTxData == {[len |-> 0], [len |-> 3]}
DirectOffsets == {-1, 0, 1}
DirectLimits == {-1, 0, 1}

\* what a call of the service returns: no response of a handler
Result(data, err) == [resp |-> FALSE, data |-> data, err |-> err]

\* WalletService.CreateWallet up to StoreWallet's existence check
CallCreateWallet(p) ==
    /\ Ready(p)
    /\ \E name \in DirectNames, coinType \in DirectCoins, mnemonic \in ReqMnemonics,
          fresh \in GenMnemonics, native \in BOOLEAN, now \in 1..MaxTime, io \in BOOLEAN :
          LET r == [Request("CreateWallet", name) EXCEPT !.coinType = coinType]
              b == CreateWalletBegin(store, name, coinType, mnemonic, fresh, native, now, io)
              calls == {"service"} \cup (IF name # <<>> THEN {"provider"} ELSE {})
                       \cup (IF b.keys THEN {"get"} ELSE {})
              racing == {q \in Procs \ {p} : pc[q] = "create_put" /\ req[q].name = name}
          IN  /\ IF b.proceed
                 THEN /\ Step(p, "create_put", r, b.obj, NoResponse, calls)
                      /\ overlap' = [q \in Procs |->
                                        IF q = p THEN racing # {}
                                        ELSE overlap[q] \/ q \in racing]
                 ELSE /\ Step(p, "done", r, b.obj, Result(NoData, b.err), calls)
                      /\ UNCHANGED overlap
              /\ UNCHANGED <<store, encryptionKey, tampers, created, delCount>>

\* WalletService.SignTransaction up to the wallet it retrieves and decrypts
CallSignTransaction(p) ==
    /\ Ready(p)
    /\ \E name \in DirectNames, txData \in DirectTxData, io \in BOOLEAN :
          LET r == [Request("SignTransaction", name) EXCEPT !.txData = txData]
              b == SignTransactionBegin(store, encryptionKey, name, txData, io)
              calls == {"service"} \cup
                       (IF name # <<>> /\ txData.len # 0 THEN {"get"} ELSE {})
          IN  /\ IF b.err = NoErr
                 THEN Step(p, "sign_call", r, b.wallet[1], NoResponse, calls)
                 ELSE Step(p, "done", r, NoWallet, Result(NoData, b.err), calls)
              /\ UNCHANGED <<store, encryptionKey, tampers, history>>

\* WalletService.ListWallets
CallListWallets(p) ==
    /\ Ready(p)
    /\ \E offset \in DirectOffsets, limit \in DirectLimits, io \in BOOLEAN :
          LET r == [Request("ListWallets", <<>>) EXCEPT !.offset = offset, !.limit = limit]
              l == ServiceListWallets(store, offset, limit, io)
          IN  /\ Step(p, "done", r, NoWallet,
                      IF l.panicked THEN Panicked
                      ELSE Result("keys" :> ListVal(l.keys), l.err),
                      {"service", "list"})
              /\ UNCHANGED <<store, encryptionKey, tampers, history>>

\* the calls of the service; a CreateWallet and a SignTransaction are
\* completed by CreatePut and SignCall, a wallet is removed by a delete
\* request
ServiceNext ==
    \/ \E p \in Procs : CallCreateWallet(p)
    \/ \E p \in Procs : CreatePut(p)
    \/ \E p \in Procs : CallSignTransaction(p)
    \/ \E p \in Procs : SignCall(p)
    \/ \E p \in Procs : CallListWallets(p)
    \/ \E p \in Procs : HandleWalletDelete(p)
    \/ \E p \in Procs : DeleteRemove(p)
    \/ \E p \in Procs : Deliver(p)

ServiceSpec == Init /\ [][ServiceNext]_vars

(***************************************************************************)
(* Vocabulary of the properties                                            *)
(***************************************************************************)
\* the response is the 404 "wallet not found" / the 409 "wallet already exists"
IsNotFound(r) ==
    r.resp /\ DOMAIN r.data = {"error", "http_status_code"}
           /\ r.data["http_status_code"] = IntVal(404)

IsAlreadyExists(r) ==
    r.resp /\ DOMAIN r.data = {"error", "http_status_code"}
           /\ r.data["http_status_code"] = IntVal(409)

\* the request failed because a call of the persistent backend failed
BackendFault(r) == ErrorsIs(r.err, BackendIOError)

\* p took a request of kind op to the service in this step
Accepts(p, op) == pc[p] = "idle" /\ req'[p].op = op /\ "service" \in called'[p]

\* p has answered a request of kind op that went to the service
Answered(p, op) == pc[p] = "done" /\ req[p].op = op /\ "service" \in called[p]

\* name, coin_type, address and public_key of a stored entry or a wallet
Identity(w) == <<w.Name, w.CoinType, w.Address, w.PublicKey>>

\* the same of the Data of a create or read response
DataIdentity(d) == <<d["name"][2], d["coin_type"][2], d["address"][2], d["public_key"][2]>>

\* the phrases the provider accepts, and every mnemonic and private key a
\* wallet of the model can hold
ValidMnemonics == GenMnemonics \cup {m \in ReqMnemonics : m # <<>> /\ TWMnemonicIsValid(m)}

Secrets ==
    ValidMnemonics \cup
    {TWPrivateKeyData(m, c, <<>>) :
        m \in ValidMnemonics, c \in {CoinTypeBitcoin, CoinTypeEthereum, CoinTypeSolana}}

\* blob is an envelope that encrypt makes under key
Genuine(blob, key) ==
    \E pt \in Secrets, r \in 0..(NumNonces - 1) : encrypt(key, pt, r, TRUE).out = blob

\* an envelope of the stored entry was modified, truncated or made under another key
Corrupt(entry, key) ==
    ~Genuine(entry.MnemonicEncrypted, key) \/ ~Genuine(entry.PrivateKeyEncrypted, key)

\* p ends a create by its backend Put in this step
Puts(p) == pc[p] = "create_put" /\ pc'[p] = "done" /\ "put" \in called'[p]

(***************************************************************************)
(* C1  Duplicate create, sequential executions                             *)
(***************************************************************************)
\* C1 as stated: in a sequential execution, every CreateWallet for a name
\* that has a stored record (and whose backend read is answered) returns
\* AlreadyExists and leaves the backend as it was.
C1_DuplicateCreateAlwaysExists ==
    [][\A p \in Procs : \A n \in Names :
          (Accepts(p, "create") /\ req'[p].name = n /\ WalletKey(n) \in DOMAIN store
             /\ ~BackendFault(resp'[p]))
          => (IsAlreadyExists(resp'[p]) /\ store' = store)]_vars

\* C1 amended: in a sequential execution, a CreateWallet for a name that has
\* a stored record never changes the backend and never succeeds; it returns
\* AlreadyExists when its Signing Provider call succeeded, and the
\* provider's error otherwise.
C1_DuplicateCreate ==
    [][\A p \in Procs : \A n \in Names :
          (Accepts(p, "create") /\ req'[p].name = n /\ WalletKey(n) \in DOMAIN store
             /\ ~BackendFault(resp'[p]))
          => /\ store' = store
             /\ pc'[p] = "done"
             /\ "name" \notin DOMAIN resp'[p].data
             /\ "get" \in called'[p] <=> IsAlreadyExists(resp'[p])]_vars

\* a create of a stored name was answered with AlreadyExists, the record is there
C1_Witness ==
    \E p \in Procs :
        /\ Answered(p, "create") /\ IsAlreadyExists(resp[p])
        /\ WalletKey(req[p].name) \in DOMAIN store

(***************************************************************************)
(* C2  No update in place                                                  *)
(***************************************************************************)
\* C2 as stated: in every execution no step of the plugin changes the
\* content of an entry that stays in the backend.
C2_NeverOverwritten ==
    [][\A k \in DOMAIN store :
          tampers' = tampers => (k \notin DOMAIN store' \/ store'[k] = store[k])]_vars

\* C2 amended: the content of an entry that stays in the backend is changed
\* by a step of the plugin only when that step is the Put of a create that
\* was past its existence check together with another create of the name.
C2_OverwrittenOnlyByRace ==
    [][\A k \in DOMAIN store :
          (tampers' = tampers /\ k \in DOMAIN store' /\ store'[k] # store[k])
          => \E p \in Procs : Puts(p) /\ overlap[p] /\ WalletKey(req[p].name) = k]_vars

\* a create that overlapped no other has written its record
C2_Witness ==
    \E p \in Procs : \E n \in Names :
        /\ Answered(p, "create") /\ "put" \in called[p] /\ req[p].name = n
        /\ \E c \in created[n] : ~c.raced /\ c.data = resp[p].data
        /\ WalletKey(n) \in DOMAIN store
        /\ Identity(store[WalletKey(n)]) = DataIdentity(resp[p].data)

(***************************************************************************)
(* C3  The duplicate-creation race                                         *)
(***************************************************************************)
\* C3: a create that passed the existence check and reaches the backend
\* Put is answered with success and its record is the entry afterwards,
\* whatever another create has written in between: the Put replaces it.
C3_PutReplaces ==
    [][\A p \in Procs :
          Puts(p) =>
             /\ resp'[p] = Response(WalletData(walletObj[p]))
             /\ WalletKey(req[p].name) \in DOMAIN store'
             /\ Identity(store'[WalletKey(req[p].name)]) = Identity(walletObj[p])]_vars

\* two creates of one name, both past the check before either Put, have both
\* been answered with success, with different records, and one is stored
C3_Witness ==
    \E p \in Procs : \E q \in Procs \ {p} :
        /\ Answered(p, "create") /\ Answered(q, "create")
        /\ req[p].name = req[q].name
        /\ "put" \in called[p] /\ "put" \in called[q]
        /\ "name" \in DOMAIN resp[p].data /\ "name" \in DOMAIN resp[q].data
        /\ resp[p].data # resp[q].data
        /\ WalletKey(req[p].name) \in DOMAIN store
        /\ Identity(store[WalletKey(req[p].name)]) = DataIdentity(resp[q].data)
        /\ created[req[p].name] = {[data |-> resp[p].data, raced |-> TRUE],
                                   [data |-> resp[q].data, raced |-> TRUE]}

(***************************************************************************)
(* C4  Zero-on-exit of SignTransaction and GetAddress                      *)
(***************************************************************************)
\* C4: when a SignTransaction or GetAddress that retrieved and decrypted
\* its wallet has returned (result, provider error or panic), the private
\* key buffer of its wallet object is all zero and its mnemonic is empty.
C4_ClearedOnEveryExit ==
    \A p \in Procs :
        (pc[p] = "done" /\ req[p].op \in {"sign", "address"} /\ "provider" \in called[p])
        => /\ AllZero(walletObj[p].PrivateKey)
           /\ walletObj[p].Mnemonic = <<>>

\* a sign whose provider call panicked has left a zeroed key buffer
C4_Witness ==
    \E p \in Procs :
        /\ pc[p] = "done" /\ req[p].op = "sign" /\ "provider" \in called[p]
        /\ resp[p] = Panicked
        /\ Len(walletObj[p].PrivateKey) > 0 /\ AllZero(walletObj[p].PrivateKey)
        /\ walletObj[p].Name = req[p].name

(***************************************************************************)
(* C5  Zero-on-exit of CreateWallet                                        *)
(***************************************************************************)
\* C5: when a CreateWallet to which the Signing Provider returned key
\* material has returned, the private key buffer of the provider is all zero
\* and the mnemonic it produced is cleared.
C5_CreateClearsSecrets ==
    \A p \in Procs :
        (pc[p] = "done" /\ req[p].op = "create" /\ "get" \in called[p])
        => /\ AllZero(walletObj[p].PrivateKey)
           /\ walletObj[p].Mnemonic = <<>>

(***************************************************************************)
(* C6  A corrupted envelope fails decryption                               *)
(***************************************************************************)
\* C6: a sign or address request for a stored wallet of which an envelope
\* is not one encrypt makes under the current key (and whose backend read
\* is answered) ends at once with the decryption failure: GetWallet returns
\* no wallet, the answer is not "wallet not found", and the Signing
\* Provider is not reached.
C6_CorruptFailsDecryption ==
    [][\A p \in Procs : \A n \in Names :
          (/\ pc[p] = "idle" /\ req'[p].op \in {"sign", "address"}
           /\ "service" \in called'[p] /\ req'[p].name = n
           /\ WalletKey(n) \in DOMAIN store
           /\ Corrupt(store[WalletKey(n)], encryptionKey)
           /\ ~BackendFault(resp'[p]))
          => /\ StorageGetWallet(store, encryptionKey, n, TRUE).wallet = <<>>
             /\ ErrorsIs(StorageGetWallet(store, encryptionKey, n, TRUE).err,
                         ErrDecryptionFailed)
             /\ pc'[p] = "done"
             /\ ErrorsIs(resp'[p].err, ErrDecryptionFailed)
             /\ ~resp'[p].resp
             /\ "provider" \notin called'[p]]_vars

\* a sign of a wallet with an envelope modified from outside was answered
\* with the decryption failure
C6_Witness ==
    \E p \in Procs :
        /\ Answered(p, "sign") /\ ErrorsIs(resp[p].err, ErrDecryptionFailed)
        /\ tampers > 0
        /\ WalletKey(req[p].name) \in DOMAIN store
        /\ Corrupt(store[WalletKey(req[p].name)], encryptionKey)
        /\ "provider" \notin called[p]

(***************************************************************************)
(* C7  No secret in a response                                             *)
(***************************************************************************)
\* C7: the Data of every response has no mnemonic and no private_key field,
\* and no string in it is the mnemonic or the private key of a wallet.
C7_NoSecretInResponse ==
    \A p \in Procs :
        LET d == resp[p].data
        IN  /\ "mnemonic" \notin DOMAIN d
            /\ "private_key" \notin DOMAIN d
            /\ \A f \in DOMAIN d :
                  /\ d[f][1] = "str" => d[f][2] \notin Secrets
                  /\ d[f][1] = "list" => \A i \in DOMAIN d[f][2] : d[f][2][i] \notin Secrets

\* a create was answered with the data of a wallet whose stored envelopes
\* hold a mnemonic and a private key
C7_Witness ==
    \E p \in Procs :
        /\ Answered(p, "create") /\ "address" \in DOMAIN resp[p].data
        /\ WalletKey(req[p].name) \in DOMAIN store
        /\ LET got == StorageGetWallet(store, encryptionKey, req[p].name, TRUE)
           IN  /\ got.err = NoErr
               /\ got.wallet[1].Mnemonic \in Secrets
               /\ got.wallet[1].PrivateKey \in Secrets

(***************************************************************************)
(* C8  Create, then read                                                   *)
(***************************************************************************)
\* the Data of a read response gives the identity that the Data c of a
\* create response gave, which is the one the provider produced
SameIdentity(r, c) ==
    /\ r.resp /\ "address" \in DOMAIN r.data
    /\ DataIdentity(r.data) = DataIdentity(c)
    /\ \E m \in ValidMnemonics :
          LET keys == WalletKeys(m, c["coin_type"][2])
          IN  /\ c["address"][2] = keys.Address
              /\ c["public_key"][2] = GetPublicKeyHex(keys.PublicKey)

\* C8 as stated: a read of a name (whose backend read is answered) returns
\* the name, coin_type, address and public_key of every create of the name
\* that succeeded since the last successful delete of the name.
C8_ReadReturnsCreated ==
    [][\A p \in Procs : \A n \in Names :
          (Accepts(p, "read") /\ req'[p].name = n /\ ~BackendFault(resp'[p]))
          => \A c \in created[n] : SameIdentity(resp'[p], c.data)]_vars

\* C8 amended: the same, of every such create that was not past its
\* existence check together with another create of the name.
C8_ReadReturnsUnracedCreate ==
    [][\A p \in Procs : \A n \in Names :
          (Accepts(p, "read") /\ req'[p].name = n /\ ~BackendFault(resp'[p]))
          => \A c \in created[n] : ~c.raced => SameIdentity(resp'[p], c.data)]_vars

\* a read was answered with the identity of the create before it
C8_Witness ==
    \E p \in Procs : \E n \in Names :
        /\ Answered(p, "read") /\ req[p].name = n
        /\ \E c \in created[n] : ~c.raced /\ SameIdentity(resp[p], c.data)

(***************************************************************************)
(* C9  Delete of an absent name, sequential executions                     *)
(***************************************************************************)
\* C9: in a sequential execution a DeleteWallet of a name that has no
\* stored record (and whose backend read is answered) returns NotFound at
\* once and changes nothing, also when the last request for the name was a
\* successful delete.
C9_DeleteAbsentNotFound ==
    [][\A p \in Procs : \A n \in Names :
          (Accepts(p, "delete") /\ req'[p].name = n /\ WalletKey(n) \notin DOMAIN store
             /\ ~BackendFault(resp'[p]))
          => /\ pc'[p] = "done"
             /\ IsNotFound(resp'[p])
             /\ store' = store
             /\ "delete" \notin called'[p]
             /\ UNCHANGED <<encryptionKey, created, delCount>>]_vars

\* a delete after a successful delete of the name was answered with NotFound
C9_Witness ==
    \E p \in Procs : \E n \in Names :
        /\ Answered(p, "delete") /\ req[p].name = n /\ IsNotFound(resp[p])
        /\ delCount[n] = 1
        /\ WalletKey(n) \notin DOMAIN store

(***************************************************************************)
(* C10  A record is destroyed once                                         *)
(***************************************************************************)
\* C10: of the Delete requests for a record at most one returns success:
\* no name has two successful deletes without a Put of the name in between.
C10_DestroyedOnce == \A n \in Names : delCount[n] <= 1

(***************************************************************************)
(* C11  Create, delete, create again: sequential executions                *)
(***************************************************************************)
\* the response carries the data of a wallet
IsWalletData(r) == r.resp /\ r.err = NoErr /\ "address" \in DOMAIN r.data

\* p ends a create in this step, at its existence check or at its Put
EndsCreate(p) ==
    /\ pc[p] \in {"idle", "create_put"} /\ pc'[p] = "done"
    /\ req'[p].op = "create" /\ "service" \in called'[p]

\* C11 as stated: in a sequential execution a create that reached the
\* Lifecycle Manager succeeds exactly when no record of its name is stored.
C11_CreateSucceedsIffAbsent ==
    [][\A p \in Procs :
          EndsCreate(p)
          => (IsWalletData(resp'[p]) <=> WalletKey(req'[p].name) \notin DOMAIN store)]_vars

\* C11 amended: in a sequential execution, a create whose Signing Provider
\* call produced key material and that met no backend or randomness failure
\* succeeds exactly when no record of its name is stored, and is answered
\* with AlreadyExists otherwise; no other create succeeds.  Its success
\* stores a record that decrypts to the key material of that provider call.
\* A successful delete removes the record, so that the next such create
\* succeeds again.
C11_CreateDeleteCreate ==
    [][\A p \in Procs :
          LET k == WalletKey(req'[p].name)
          IN  /\ (EndsCreate(p) /\ IsWalletData(resp'[p]))
                 => /\ k \notin DOMAIN store /\ k \in DOMAIN store'
                    /\ "provider" \in called'[p] /\ "get" \in called'[p]
                    /\ LET got == StorageGetWallet(store', encryptionKey, req'[p].name, TRUE)
                       IN  /\ got.err = NoErr
                           /\ got.wallet[1].Mnemonic = walletObj[p].Mnemonic
                           /\ got.wallet[1].PrivateKey = walletObj[p].PrivateKey
                           /\ got.wallet[1].Mnemonic \in ValidMnemonics
                           /\ got.wallet[1].PrivateKey =
                                 WalletKeys(got.wallet[1].Mnemonic, req'[p].coinType).PrivateKey
              /\ (/\ EndsCreate(p) /\ "get" \in called'[p]
                  /\ ~BackendFault(resp'[p])
                  /\ ~ErrorsIs(resp'[p].err, ErrEncryptionFailed))
                 => /\ k \notin DOMAIN store => IsWalletData(resp'[p])
                    /\ k \in DOMAIN store => (IsAlreadyExists(resp'[p]) /\ store' = store)
              /\ (/\ pc[p] = "delete_remove" /\ pc'[p] = "done"
                  /\ resp'[p] = Response("deleted" :> BoolVal(TRUE)))
                 => k \notin DOMAIN store']_vars

\* a create has stored a record that decrypts under the current key, after
\* an envelope of the record of its name was modified from outside: that
\* record was deleted and the name created again
C11_Witness ==
    \E p \in Procs :
        /\ Answered(p, "create") /\ IsWalletData(resp[p]) /\ "put" \in called[p]
        /\ tampers > 0
        /\ WalletKey(req[p].name) \in DOMAIN store
        /\ ~Corrupt(store[WalletKey(req[p].name)], encryptionKey)
        /\ created[req[p].name] = {[data |-> resp[p].data, raced |-> FALSE]}

(***************************************************************************)
(* C12  After a successful delete                                          *)
(***************************************************************************)
\* the names a list response carries
Listed(r) == IF "keys" \in DOMAIN r.data THEN Range(r.data["keys"][2]) ELSE {}

\* C12: while a delete of a name has returned success and no create of the
\* name has succeeded since, every read, sign, address and delete request
\* for the name that starts (and whose backend read is answered) is
\* answered at once with the 404 "wallet not found", without data of a
\* wallet, a signature or an address and without a call of the Signing
\* Provider, and a list that starts does not carry the name.
C12_GoneAfterDelete ==
    [][\A p \in Procs : \A n \in Names :
          (delCount[n] >= 1 /\ pc[p] = "idle" /\ "service" \in called'[p]
             /\ ~BackendFault(resp'[p]))
          => /\ (req'[p].op \in {"read", "sign", "address", "delete"} /\ req'[p].name = n)
                => /\ pc'[p] = "done"
                   /\ IsNotFound(resp'[p])
                   /\ resp'[p].data["error"] = MsgVal(<<"wallet not found">>)
                   /\ "provider" \notin called'[p]
                   /\ store' = store
             /\ req'[p].op = "list" => n \notin Listed(resp'[p])]_vars

\* a sign of a name was answered with NotFound after the delete of its
\* record had returned success
C12_Witness ==
    \E p \in Procs : \E n \in Names :
        /\ Answered(p, "sign") /\ req[p].name = n /\ IsNotFound(resp[p])
        /\ delCount[n] = 1 /\ created[n] = {}
        /\ WalletKey(n) \notin DOMAIN store
        /\ \A q \in Procs \ {p} : pc[q] = "idle"

(***************************************************************************)
(* C13  The metadata read does not decrypt                                 *)
(***************************************************************************)
\* C13: a read of a name (whose backend read is answered) is answered with
\* the name, coin_type, address, public_key and created_at stored in plain
\* in the entry, whatever its envelopes are (modified, truncated or made
\* under another key), when the name has an entry, and with NotFound exactly
\* when it has none; it calls nothing but the service and the backend Get.
C13_ReadNeverDecrypts ==
    [][\A p \in Procs : \A n \in Names :
          (Accepts(p, "read") /\ req'[p].name = n /\ ~BackendFault(resp'[p]))
          => /\ pc'[p] = "done"
             /\ called'[p] = {"service", "get"}
             /\ WalletKey(n) \in DOMAIN store
                => /\ resp'[p] = Response(WalletData(store[WalletKey(n)]))
                   /\ "mnemonic" \notin DOMAIN resp'[p].data
             /\ WalletKey(n) \notin DOMAIN store <=> IsNotFound(resp'[p])]_vars

\* a read was answered with the data of a wallet whose stored envelope had
\* been modified from outside and does not decrypt under the current key
C13_Witness ==
    \E p \in Procs :
        /\ Answered(p, "read") /\ IsWalletData(resp[p])
        /\ tampers > 0
        /\ WalletKey(req[p].name) \in DOMAIN store
        /\ Corrupt(store[WalletKey(req[p].name)], encryptionKey)
        /\ StorageGetWallet(store, encryptionKey, req[p].name, TRUE).err # NoErr

(***************************************************************************)
(* C14  Pagination of ListWallets                                          *)
(***************************************************************************)
\* the page of the listing K the claim gives for offset and limit
ListSlice(K, offset, limit) ==
    IF offset >= Len(K) THEN <<>>
    ELSE IF limit <= 0 \/ offset + limit > Len(K) THEN SubSeq(K, offset + 1, Len(K))
    ELSE SubSeq(K, offset + 1, offset + limit)

\* C14: a list request with non-negative offset and limit (whose backend
\* List is answered) returns, of the listing K of the backend, nothing when
\* offset >= Len(K), K from offset to its end when limit <= 0 or
\* offset + limit > Len(K), and K from offset to offset + limit otherwise.
C14_ListPage ==
    [][\A p \in Procs :
          (/\ Accepts(p, "list") /\ ~BackendFault(resp'[p])
           /\ req'[p].offset >= 0 /\ req'[p].limit >= 0)
          => resp'[p] = ListResponse(ListSlice(StorageList(store, WalletsPrefix),
                                               req'[p].offset, req'[p].limit))]_vars

(***************************************************************************)
(* C15  coin_type outside the supported set                                *)
(***************************************************************************)
\* the response is an error response of the handler: the request was not
\* valid (status 400)
IsInvalidInput(r) == r.resp /\ r.err = NoErr /\ DOMAIN r.data = {"error"}

\* C15: a create with a valid name and an integer coin_type that is not 0,
\* 60 or 501 is answered with an error response, the Lifecycle Manager is
\* not called and the backend is left as it was.
C15_UnsupportedCoinRejected ==
    [][\A p \in Procs :
          (/\ pc[p] = "idle" /\ pc'[p] # "idle" /\ req'[p].op = "create"
           /\ req'[p].coinRaw # <<>>
           /\ req'[p].coinRaw[1] \notin {CoinTypeBitcoin, CoinTypeEthereum, CoinTypeSolana})
          => /\ pc'[p] = "done"
             /\ IsInvalidInput(resp'[p])
             /\ called'[p] = {}
             /\ store' = store]_vars

(***************************************************************************)
(* C16  tx_data that is too long, not base64, or empty                     *)
(***************************************************************************)
\* the number of bytes a base64 string of len characters stands for
DecodedLen(tx) == (tx.len \div 4) * 3

\* tx is no base64 string: a character outside the alphabet, or a length
\* that is no multiple of four
NotBase64(tx) == ~tx.wellFormed \/ tx.len % 4 # 0

\* C16: a sign request whose tx_data is missing or empty, is not valid
\* base64, or stands for more than MaxTxDataLen bytes is answered with an
\* error response at once; the Lifecycle Manager, the backend and the
\* Signing Provider are not called and nothing is stored or decrypted.
C16_BadTxDataRejected ==
    [][\A p \in Procs :
          (/\ pc[p] = "idle" /\ pc'[p] # "idle" /\ req'[p].op = "sign"
           /\ validateWalletName(req'[p].name) = NoErr
           /\ \/ req'[p].txRaw.len = 0
              \/ NotBase64(req'[p].txRaw)
              \/ DecodedLen(req'[p].txRaw) > MaxTxDataLen)
          => /\ pc'[p] = "done"
             /\ IsInvalidInput(resp'[p])
             /\ called'[p] = {}
             /\ walletObj'[p] = NoWallet
             /\ store' = store]_vars

\* a sign of a stored wallet with a well-formed tx_data that stands for more
\* than MaxTxDataLen bytes was answered with an error response
C16_Witness ==
    \E p \in Procs :
        /\ pc[p] = "done" /\ req[p].op = "sign"
        /\ WalletKey(req[p].name) \in DOMAIN store
        /\ ~NotBase64(req[p].txRaw) /\ DecodedLen(req[p].txRaw) > MaxTxDataLen
        /\ IsInvalidInput(resp[p]) /\ called[p] = {}

(***************************************************************************)
(* C17  Generic error messages                                             *)
(***************************************************************************)
\* the texts of the errors of the persistent backend, of the random source
\* and of the Signing Provider
UnderlyingTexts ==
    {BackendIOError, RandReadError, WalletErrInvalidMnemonic, WalletErrInvalidCoinType,
     ErrKeyGenerationFailed, WalletErrSigningFailed, ErrAddressDerivation}

\* C17: the error a handler returns to the caller never carries the text of
\* an error of the backend or of the Signing Provider.
C17_NoUnderlyingErrorText ==
    \A p \in Procs : \A i \in DOMAIN resp[p].err : resp[p].err[i] \notin UnderlyingTexts

(***************************************************************************)
(* C18  A signing failure of the provider                                  *)
(***************************************************************************)
\* C18: when the provider call of a sign has returned an error, the handler
\* returns an error (an internal failure, status 500) and not an error
\* response as it does for invalid input (status 400).
C18_SigningFailureIsInternal ==
    [][\A p \in Procs :
          (/\ pc[p] = "sign_call" /\ pc'[p] = "done"
           /\ resp'[p] # Panicked /\ "signed_tx" \notin DOMAIN resp'[p].data)
          => /\ ~resp'[p].resp /\ resp'[p].err # NoErr
             /\ ~IsInvalidInput(resp'[p])]_vars

(***************************************************************************)
(* C19  The keys of the backend                                            *)
(***************************************************************************)
\* name is non-empty, at most 255 long, without "..", "/" and "\" and
\* without a control character
SafeName(name) ==
    /\ name # <<>> /\ Len(name) <= 255
    /\ \A i \in 1..Len(name) :
          /\ name[i] \notin {47, 92}
          /\ name[i] >= 32 /\ name[i] # 127
          /\ i < Len(name) => ~(name[i] = 46 /\ name[i + 1] = 46)

\* C19: every key of the backend is "wallets/" followed by such a name, and
\* every request that has reached the backend (its Get, Put or Delete, on
\* the key "wallets/" + name) has such a name.
C19_KeysInNamespace ==
    /\ \A k \in DOMAIN store :
          /\ HasPrefix(k, WalletsPrefix)
          /\ SafeName(Suffix(k, Len(WalletsPrefix)))
    /\ \A p \in Procs :
          called[p] \cap {"get", "put", "delete"} # {} => SafeName(req[p].name)

\* a wallet is stored, and a request for a name with a slash was answered
\* with an error response without a call of the service
C19_Witness ==
    \E p \in Procs :
        /\ pc[p] = "done" /\ 47 \in Range(req[p].name)
        /\ IsInvalidInput(resp[p]) /\ called[p] = {}
        /\ DOMAIN store # {}

(***************************************************************************)
(* C20  decrypt after encrypt                                              *)
(***************************************************************************)
\* C20: for every mnemonic and private key (the empty string among them),
\* every key and every nonce drawn, a StoreWallet that succeeds writes
\* envelopes that encrypt makes of them and that decrypt turns back into
\* them without error, and the GetWallet after it (whose backend read is
\* answered) succeeds and returns the wallet that was stored, mnemonic and
\* private key byte for byte.
C20_RoundTrip ==
    [][\A p \in Procs :
          LET w == walletObj[p]
              k == WalletKey(w.Name)
          IN  /\ (pc[p] = "idle" /\ pc'[p] = "stored")
                 => /\ k \in DOMAIN store'
                    /\ \E r \in CryptoNonces :
                          store'[k].MnemonicEncrypted = encrypt(encryptionKey, w.Mnemonic, r, TRUE).out
                    /\ \E r \in CryptoNonces :
                          store'[k].PrivateKeyEncrypted = encrypt(encryptionKey, w.PrivateKey, r, TRUE).out
                    /\ decrypt(encryptionKey, store'[k].MnemonicEncrypted) =
                          [out |-> w.Mnemonic, err |-> NoErr]
                    /\ decrypt(encryptionKey, store'[k].PrivateKeyEncrypted) =
                          [out |-> w.PrivateKey, err |-> NoErr]
              /\ (pc[p] = "stored" /\ pc'[p] = "done" /\ ~BackendFault(resp'[p]))
                 => /\ resp'[p].err = NoErr
                    /\ walletObj'[p] = w]_vars

\* two wallets with an empty mnemonic and the private key <<0, 255>> were
\* stored with different nonces, and both were returned as they were stored
C20_Witness ==
    \E p \in Procs : \E q \in Procs \ {p} :
        /\ pc[p] = "done" /\ req[p].op = "getFull" /\ resp[p].err = NoErr
        /\ pc[q] = "done" /\ req[q].op = "getFull" /\ resp[q].err = NoErr
        /\ walletObj[p].Mnemonic = <<>> /\ walletObj[p].PrivateKey = <<0, 255>>
        /\ walletObj[q].Mnemonic = <<>> /\ walletObj[q].PrivateKey = <<0, 255>>
        /\ store[WalletKey(req[p].name)].MnemonicEncrypted #
              store[WalletKey(req[q].name)].MnemonicEncrypted
        /\ store[WalletKey(req[p].name)].PrivateKeyEncrypted #
              store[WalletKey(req[q].name)].PrivateKeyEncrypted

(***************************************************************************)
(* C21  A field that is not valid ends the request in the handler          *)
(***************************************************************************)
\* path begins with "m/", is at most 100 long and has digits, "/", "'" and
\* "m" only
ValidPath(path) ==
    /\ Len(path) <= 100 /\ HasPrefix(path, <<109, 47>>)
    /\ \A i \in 1..Len(path) : IsDigit(path[i]) \/ path[i] \in {47, 39, 109}

\* the numerals of the supported coin types: "0", "60", "501"
CoinNumerals == {<<48>>, <<54, 48>>, <<53, 48, 49>>}

\* a field of the request r, as it was sent, is not valid
FieldFails(r) ==
    \/ r.op \in {"create", "read", "delete", "sign", "address"} /\ ~SafeName(r.name)
    \/ r.op = "create"
       /\ (r.coinRaw = <<>>
           \/ r.coinRaw[1] \notin {CoinTypeBitcoin, CoinTypeEthereum, CoinTypeSolana})
    \/ r.op = "sign"
       /\ (r.txRaw.len = 0 \/ NotBase64(r.txRaw) \/ DecodedLen(r.txRaw) > MaxTxDataLen)
    \/ r.op = "address"
       /\ (r.coinStr \notin CoinNumerals \/ (r.path # <<>> /\ ~ValidPath(r.path)))
    \/ r.op = "list" /\ (r.offset < 0 \/ r.limit < 0)

\* C21: a request of which a field (wallet name, coin_type, derivation_path,
\* tx_data, offset, limit) is not valid is answered by its handler with an
\* error response; the Lifecycle Manager is not called, nothing is
\* decrypted, the Signing Provider and the backend are not reached and the
\* store is left as it was.
C21_InvalidFieldRejected ==
    [][\A p \in Procs :
          (pc[p] = "idle" /\ pc'[p] # "idle" /\ FieldFails(req'[p]))
          => /\ pc'[p] = "done"
             /\ IsInvalidInput(resp'[p])
             /\ called'[p] = {}
             /\ walletObj'[p] = NoWallet
             /\ store' = store]_vars

(***************************************************************************)
(* C22  WalletService.ListWallets with a negative offset or limit          *)
(***************************************************************************)
\* C22: a call of WalletService.ListWallets with a negative offset or a
\* negative limit returns an error for the invalid input and no names; the
\* ListWallets of the storage service is not called and the call does not
\* panic.
C22_NegativeListRejected ==
    [][\A p \in Procs :
          (/\ pc[p] = "idle" /\ req'[p].op = "ListWallets"
           /\ (req'[p].offset < 0 \/ req'[p].limit < 0))
          => /\ resp'[p] # Panicked
             /\ resp'[p].err # NoErr
             /\ ~BackendFault(resp'[p])
             /\ "keys" \notin DOMAIN resp'[p].data
             /\ "list" \notin called'[p]]_vars

(***************************************************************************)
(* C23  SignTransaction with an empty transaction                          *)
(***************************************************************************)
\* C23 as stated: a call of SignTransaction with an empty transaction, for
\* every name, returns the error of the invalid transaction data; the
\* backend is not read, nothing is decrypted and the call holds no wallet.
C23_EmptyTxIsInvalidTxData ==
    [][\A p \in Procs :
          (pc[p] = "idle" /\ req'[p].op = "SignTransaction" /\ req'[p].txData.len = 0)
          => /\ pc'[p] = "done"
             /\ resp'[p] = Result(NoData, <<ErrInvalidTxData>>)
             /\ called'[p] = {"service"}
             /\ walletObj'[p] = NoWallet
             /\ store' = store]_vars

\* C23 amended: a call of SignTransaction with an empty transaction returns
\* the error of the invalid transaction data for every name that is not
\* empty, the name of a stored wallet or not, and the error of the invalid
\* wallet name for the empty name; in both cases the backend is not read,
\* nothing is decrypted and the call holds no wallet.
C23_EmptyTxNoDecrypt ==
    [][\A p \in Procs :
          (pc[p] = "idle" /\ req'[p].op = "SignTransaction" /\ req'[p].txData.len = 0)
          => /\ pc'[p] = "done"
             /\ resp'[p] = Result(NoData, IF req'[p].name = <<>>
                                          THEN <<ErrInvalidWalletName>>
                                          ELSE <<ErrInvalidTxData>>)
             /\ called'[p] = {"service"}
             /\ walletObj'[p] = NoWallet
             /\ store' = store]_vars

\* a SignTransaction with an empty transaction for a stored wallet, whose
\* envelopes decrypt, has returned the error of the invalid transaction data
C23_Witness ==
    \E p \in Procs :
        /\ pc[p] = "done" /\ req[p].op = "SignTransaction" /\ req[p].txData.len = 0
        /\ WalletKey(req[p].name) \in DOMAIN store
        /\ StorageGetWallet(store, encryptionKey, req[p].name, TRUE).err = NoErr
        /\ resp[p] = Result(NoData, <<ErrInvalidTxData>>)
        /\ called[p] = {"service"} /\ walletObj[p] = NoWallet

(***************************************************************************)
(* C24  CreateWallet writes once or not at all                             *)
(***************************************************************************)
\* C24: a call of CreateWallet writes the backend in one step only, the Put
\* that ends it with success: that step writes the one entry of its name,
\* with both envelopes of the key material of the call, and leaves every
\* other entry.  Every other step of the call (the one that returns the
\* error of the invalid name, of the provider, AlreadyExists, of a failed
\* backend read, of the encryption or of the failed or cancelled Put)
\* leaves the backend as it was, and after a Put that failed the call has
\* returned: it does not try again.
C24_CreateWritesOnce ==
    [][\A p \in Procs :
          LET k == WalletKey(req[p].name)
          IN  /\ (pc[p] = "idle" /\ req'[p].op = "CreateWallet") => store' = store
              /\ (pc[p] = "create_put" /\ pc'[p] # "create_put")
                 => /\ pc'[p] = "done"
                    /\ "put" \notin called'[p]
                       => (store' = store /\ ~IsWalletData(resp'[p]))
                    /\ "put" \in called'[p]
                       => /\ IsWalletData(resp'[p])
                          /\ DOMAIN store' = DOMAIN store \cup {k}
                          /\ \A j \in DOMAIN store \ {k} : store'[j] = store[j]
                          /\ decrypt(encryptionKey, store'[k].MnemonicEncrypted) =
                                [out |-> walletObj[p].Mnemonic, err |-> NoErr]
                          /\ decrypt(encryptionKey, store'[k].PrivateKeyEncrypted) =
                                [out |-> walletObj[p].PrivateKey, err |-> NoErr]]_vars

\* a CreateWallet of a name without record has returned the error of the
\* encryption of the private key, after the mnemonic was encrypted, and the
\* name has no record
C24_Witness ==
    \E p \in Procs :
        /\ pc[p] = "done" /\ req[p].op = "CreateWallet" /\ "get" \in called[p]
        /\ ErrorsIs(resp[p].err, "failed to encrypt private key")
        /\ "put" \notin called[p]
        /\ WalletKey(req[p].name) \notin DOMAIN store
        /\ \A q \in Procs \ {p} : pc[q] = "idle"

ReadOnlyOps == {"read", "list", "sign", "address", "health"}

\* C26: no step of a read, list, sign, address or health request, whatever
\* its input and its outcome, changes the backend.  A step of the plugin
\* that changes the backend is the Put of a create that is answered with
\* success, which adds no key but the one of its name and leaves every other
\* entry, or the Delete of a delete that is answered with success, which
\* removes the one key of its name and leaves every other entry; so a key
\* is added only by a successful create and removed only by a successful
\* delete, one at a time.
C26_OnlyCreateAndDeleteWrite ==
    [][/\ \A p \in Procs :
             (pc'[p] # pc[p] /\ (req[p].op \in ReadOnlyOps \/ req'[p].op \in ReadOnlyOps))
             => store' = store
       /\ (tampers' = tampers /\ store' # store)
          => \E p \in Procs :
                LET k == WalletKey(req[p].name)
                IN  \/ /\ req[p].op = "create" /\ Puts(p) /\ IsWalletData(resp'[p])
                       /\ DOMAIN store' = DOMAIN store \cup {k}
                       /\ \A j \in DOMAIN store \ {k} : store'[j] = store[j]
                    \/ /\ req[p].op = "delete" /\ pc[p] = "delete_remove"
                       /\ resp'[p] = Response("deleted" :> BoolVal(TRUE))
                       /\ k \in DOMAIN store
                       /\ DOMAIN store' = DOMAIN store \ {k}
                       /\ \A j \in DOMAIN store' : store'[j] = store[j]]_vars

\* a sign and an address request for a stored wallet have been answered
\* with a signature and an address, and the record is there and decrypts
C26_Witness ==
    \E p \in Procs : \E q \in Procs \ {p} :
        /\ pc[p] = "done" /\ req[p].op = "sign" /\ "signed_tx" \in DOMAIN resp[p].data
        /\ pc[q] = "done" /\ req[q].op = "address" /\ IsWalletData(resp[q])
        /\ req[q].name = req[p].name
        /\ WalletKey(req[p].name) \in DOMAIN store
        /\ StorageGetWallet(store, encryptionKey, req[p].name, TRUE).err = NoErr

(***************************************************************************)
(* C27  The list after creates and deletes                                 *)
(***************************************************************************)
\* the names whose last successful request was a create
Living == {n \in ListNames : created[n] # {}}

\* C27: in a sequential execution of create and delete requests, a list
\* request with offset 0 and limit 0 (whose backend List is answered)
\* returns the names whose last successful request was a create, each of
\* them once and no other name; these are the names of which a read
\* succeeds, and a read request of a name (whose backend read is answered)
\* succeeds exactly when the name is one of them.
C27_ListIsLiving ==
    [][\A p \in Procs :
          /\ (Accepts(p, "list") /\ ~BackendFault(resp'[p]))
             => /\ resp'[p].resp /\ resp'[p].err = NoErr
                /\ Listed(resp'[p]) = Living
                /\ "keys" \in DOMAIN resp'[p].data
                   => Len(resp'[p].data["keys"][2]) = Cardinality(Living)
                /\ \A n \in ListNames :
                      n \in Listed(resp'[p]) <=> ServiceGetWallet(store, n, TRUE).err = NoErr
          /\ (Accepts(p, "read") /\ ~BackendFault(resp'[p]))
             => (IsWalletData(resp'[p]) <=> req'[p].name \in Living)]_vars

\* a list was answered with two names, after the third name was created and
\* deleted
C27_Witness ==
    \E p \in Procs : \E n \in ListNames :
        /\ Answered(p, "list")
        /\ Listed(resp[p]) = ListNames \ {n}
        /\ Len(resp[p].data["keys"][2]) = MaxList - 1
        /\ delCount[n] = 1 /\ created[n] = {}

(***************************************************************************)
(* C28  CreateWallet: the provider before the existence check              *)
(***************************************************************************)
\* the errors CreateWallet makes of an error of the Signing Provider
IsProviderError(err) ==
    \/ err \in {<<ErrInvalidMnemonic>>, <<ErrInvalidCoinType>>}
    \/ ErrorsIs(err, ErrKeyGenerationFailed)

FromEarlierInstance(entry) ==
    \E key \in 1..(encryptionKey - 1) :
        Genuine(entry.MnemonicEncrypted, key) /\ Genuine(entry.PrivateKeyEncrypted, key)

\* C29: Factory gives the plugin a key that differs from every key before
\* it.  Of a wallet whose record an earlier instance wrote, a request of the
\* running instance (whose backend call is answered) is answered as
\* follows: a read with the data of the record, a list from offset 0
\* without limit with its name, a delete with success and the record is
\* removed; a sign and an address request end at once with the decryption
\* failure, which is no "wallet not found", without a wallet in memory and
\* without a call of the Signing Provider.
C29_EarlierInstanceWallet ==
    [][/\ encryptionKey' # encryptionKey
          => (encryptionKey' \notin 1..encryptionKey /\ store' = store)
       /\ \A p \in Procs : \A n \in Names :
             LET k == WalletKey(n)
             IN  (/\ pc[p] \in {"idle", "delete_remove"} /\ pc'[p] # pc[p]
                  /\ req'[p].name = n \/ req'[p].op = "list"
                  /\ "service" \in called'[p]
                  /\ k \in DOMAIN store /\ FromEarlierInstance(store[k])
                  /\ ~BackendFault(resp'[p]))
                 => /\ req'[p].op = "read" => resp'[p] = Response(WalletData(store[k]))
                    /\ (req'[p].op = "list" /\ req'[p].limit = 0) => n \in Listed(resp'[p])
                    /\ (req'[p].op = "delete" /\ pc[p] = "idle") => pc'[p] = "delete_remove"
                    /\ (req'[p].op = "delete" /\ pc[p] = "delete_remove")
                       => /\ resp'[p] = Response("deleted" :> BoolVal(TRUE))
                          /\ k \notin DOMAIN store'
                    /\ req'[p].op \in {"sign", "address"}
                       => /\ pc'[p] = "done"
                          /\ ~resp'[p].resp /\ ErrorsIs(resp'[p].err, ErrDecryptionFailed)
                          /\ ~IsNotFound(resp'[p])
                          /\ walletObj'[p] = NoWallet
                          /\ "provider" \notin called'[p]]_vars

\* an address request for a wallet that an earlier instance stored, and that
\* nothing has modified, was answered with the decryption failure
C29_Witness ==
    \E p \in Procs :
        /\ Answered(p, "address") /\ ErrorsIs(resp[p].err, ErrDecryptionFailed)
        /\ tampers = 0 /\ encryptionKey > 1
        /\ WalletKey(req[p].name) \in DOMAIN store
        /\ FromEarlierInstance(store[WalletKey(req[p].name)])
        /\ StorageGetWallet(store, 1, req[p].name, TRUE).err = NoErr

(***************************************************************************)
(* C30  Concurrent calls do not share secret buffers                       *)
(***************************************************************************)
\* p is between the decryption of its wallet and its provider call
HoldsSecrets(p) == pc[p] \in {"sign_call", "address_call"}

\* the wallet object holds the mnemonic and the private key of a wallet, as
\* the provider made them
SecretsIntact(w) ==
    /\ w.Mnemonic \in ValidMnemonics
    /\ w.PrivateKey = WalletKeys(w.Mnemonic, w.CoinType).PrivateKey

====
